---- MODULE Spec2Model ----
(***************************************************************************)
(* lambda-openapi: the metadata store (MetadataManager over                *)
(* reflect-metadata), the decorators ApiOperation / ApiResponse / ApiParam *)
(* with their module-level order counters, and OpenApiGenerator.           *)
(*                                                                         *)
(* JavaScript values are modelled as follows.  An optional value is a      *)
(* sequence of length 0 (undefined) or 1 (the value).  A string that the   *)
(* code inspects character by character (a function name, a path, a       *)
(* status key) is a sequence of one-character strings; every other string  *)
(* is a TLA+ string.  An object that the code shares by reference (the     *)
(* `content` option of a response) lives in `heap` and is named by a       *)
(* reference.  Handlers are distinct plain functions: none is the          *)
(* prototype of another.                                                   *)
(***************************************************************************)
EXTENDS Integers, Sequences, FiniteSets, TLC

VARIABLES
    store,          \* reflect-metadata's side table: handler -> (metadata key -> value)
    responseOrder,  \* module-level counter of api-response.ts
    paramOrder,     \* module-level counter of api-param.ts
    heap,           \* caller-owned `content` objects, by reference
    document,       \* the value the operation that produced the current state returned,
                    \* when it was generateSpec (undefined otherwise)
    applied,        \* history: entries handed to add* per handler and key, since its last clear
    fresh,          \* history: how many of them, per handler and key, came after the last
                    \* reset of that key's counter
    sinceReset,     \* history: decorator applications per key since its last reset
    last,           \* history: the operation that produced the current state, its
                    \* argument, and what it replaced
    visited         \* history: the handlers the forEach of generatePaths called its
                    \* callback with, in call order, when that operation was generateSpec

vars == <<store, responseOrder, paramOrder, heap, document, applied, fresh, sinceReset, last,
          visited>>

-----------------------------------------------------------------------------
(* Bounds of the model *)

MaxEntries == 2     \* collection entries the whole store holds at a time
MaxOrder == 2       \* largest value an order counter reaches
MaxPerKind == 1     \* entries of one kind a handler holds, where every kind is filled

-----------------------------------------------------------------------------
(* JavaScript values *)

undefined == <<>>
Some(v) == <<v>>
IsDefined(m) == m # undefined
Get(m) == m[1]

\* a || [] for an optional array
OrEmpty(m) == IF IsDefined(m) THEN Get(m) ELSE <<>>

\* A JavaScript object: a function from its own keys.
EmptyObject == [k \in {} |-> TRUE]

\* Truthiness of an optional string (a sequence of characters) and of an optional boolean.
TruthyString(m) == m # undefined /\ Get(m) # <<>>
TruthyBoolean(m) == m # undefined /\ Get(m)

\* The history record of an operation.
Did(op, target, input, before) ==
    [op |-> op, target |-> target, input |-> input, before |-> before]

METADATA_KEYS ==
    [ API_OPERATION |-> "lambda-openapi:operation",
      API_RESPONSES |-> "lambda-openapi:responses",
      API_PARAMS    |-> "lambda-openapi:params",
      API_QUERIES   |-> "lambda-openapi:queries",
      API_BODY      |-> "lambda-openapi:body",
      API_SECURITY  |-> "lambda-openapi:security",
      API_TAGS      |-> "lambda-openapi:tags" ]

CollectionKeys ==
    { METADATA_KEYS.API_RESPONSES, METADATA_KEYS.API_PARAMS, METADATA_KEYS.API_QUERIES,
      METADATA_KEYS.API_SECURITY, METADATA_KEYS.API_TAGS }



\* The handler functions of the process and the name each was declared with.
Handlers == { "h1", "h2", "h3" }

HandlerName(h) ==
    CASE h = "h1" -> <<"g","e","t","U","s","e","r","H","a","n","d","l","e","r">>
      [] h = "h2" -> <<"G","e","t","U","s","e","r">>
      [] h = "h3" -> <<"c","r","e","a","t","e","U","s","e","r","H","a","n","d","l","e","r">>

-----------------------------------------------------------------------------
(* reflect-metadata, as MetadataManager uses it *)

\* Mutant: one metadata map for all the handlers.
ReflectDefineMetadataShared(st, key, value, target) ==
    [h \in DOMAIN st |->
        [k \in (DOMAIN st[h]) \cup {key} |-> IF k = key THEN value ELSE st[h][k]]]

ReflectDefineMetadata(st, key, value, target) ==
    [st EXCEPT ![target] =
        [k \in (DOMAIN st[target]) \cup {key} |-> IF k = key THEN value ELSE st[target][k]]]

\* Mutant: every handler has h1 as its prototype, and the lookup walks to it.
ReflectGetMetadataInherited(st, key, target) ==
    IF key \in DOMAIN st[target] THEN Some(st[target][key])
    ELSE IF key \in DOMAIN st["h1"] THEN Some(st["h1"][key])
    ELSE undefined

ReflectGetMetadata(st, key, target) ==
    IF key \in DOMAIN st[target] THEN Some(st[target][key]) ELSE undefined

ReflectDeleteMetadata(st, key, target) ==
    [st EXCEPT ![target] = [k \in (DOMAIN st[target]) \ {key} |-> st[target][k]]]

-----------------------------------------------------------------------------
(* Array.prototype.sort((a, b) => a.order - b.order): a stable sort by order *)

\* Mutant: an unstable sort, entries of equal order end up newest first.
RECURSIVE InsertByOrderUnstable(_, _)
InsertByOrderUnstable(sorted, e) ==
    IF sorted = <<>> THEN <<e>>
    ELSE IF sorted[Len(sorted)].order - e.order < 0
         THEN Append(sorted, e)
         ELSE Append(InsertByOrderUnstable(SubSeq(sorted, 1, Len(sorted) - 1), e),
                     sorted[Len(sorted)])

RECURSIVE InsertByOrder(_, _)
InsertByOrder(sorted, e) ==
    IF sorted = <<>> THEN <<e>>
    ELSE IF sorted[Len(sorted)].order - e.order <= 0
         THEN Append(sorted, e)
         ELSE Append(InsertByOrder(SubSeq(sorted, 1, Len(sorted) - 1), e), sorted[Len(sorted)])

RECURSIVE SortByOrder(_)
SortByOrder(s) ==
    IF s = <<>> THEN <<>>
    ELSE InsertByOrder(SortByOrder(SubSeq(s, 1, Len(s) - 1)), s[Len(s)])

-----------------------------------------------------------------------------
(* MetadataManager *)

\* Mutant: a field-level merge, an optional field the new record leaves undefined
\* keeps its earlier value.
setOperationMerging(st, target, metadata) ==
    LET old == ReflectGetMetadata(st, METADATA_KEYS.API_OPERATION, target)
        Keep(f) == f \in {"description", "tags", "operationId", "deprecated"}
                   /\ old # undefined /\ metadata[f] = undefined
        merged == [f \in DOMAIN metadata |-> IF Keep(f) THEN Get(old)[f] ELSE metadata[f]]
    IN  ReflectDefineMetadata(st, METADATA_KEYS.API_OPERATION, merged, target)

setOperation(st, target, metadata) ==
    ReflectDefineMetadata(st, METADATA_KEYS.API_OPERATION, metadata, target)

getOperation(st, target) == ReflectGetMetadata(st, METADATA_KEYS.API_OPERATION, target)

getResponses(st, target) == OrEmpty(ReflectGetMetadata(st, METADATA_KEYS.API_RESPONSES, target))

\* Mutant: the new entry is put first and the list is not sorted.
addResponseNewestFirst(st, target, metadata) ==
    ReflectDefineMetadata(st, METADATA_KEYS.API_RESPONSES,
                          <<metadata>> \o getResponses(st, target), target)

addResponse(st, target, metadata) ==
    LET existing == getResponses(st, target)
        updated == SortByOrder(Append(existing, metadata))
    IN  ReflectDefineMetadata(st, METADATA_KEYS.API_RESPONSES, updated, target)

getParams(st, target) == OrEmpty(ReflectGetMetadata(st, METADATA_KEYS.API_PARAMS, target))

addParam(st, target, metadata) ==
    LET existing == getParams(st, target)
        updated == SortByOrder(Append(existing, metadata))
    IN  ReflectDefineMetadata(st, METADATA_KEYS.API_PARAMS, updated, target)

getQueries(st, target) == OrEmpty(ReflectGetMetadata(st, METADATA_KEYS.API_QUERIES, target))

addQuery(st, target, metadata) ==
    LET existing == getQueries(st, target)
        updated == SortByOrder(Append(existing, metadata))
    IN  ReflectDefineMetadata(st, METADATA_KEYS.API_QUERIES, updated, target)

setBody(st, target, metadata) ==
    ReflectDefineMetadata(st, METADATA_KEYS.API_BODY, metadata, target)

getBody(st, target) == ReflectGetMetadata(st, METADATA_KEYS.API_BODY, target)

getSecurity(st, target) == OrEmpty(ReflectGetMetadata(st, METADATA_KEYS.API_SECURITY, target))

addSecurity(st, target, metadata) ==
    LET existing == getSecurity(st, target)
        updated == SortByOrder(Append(existing, metadata))
    IN  ReflectDefineMetadata(st, METADATA_KEYS.API_SECURITY, updated, target)

getTags(st, target) == OrEmpty(ReflectGetMetadata(st, METADATA_KEYS.API_TAGS, target))

addTag(st, target, metadata) ==
    LET existing == getTags(st, target)
        updated == SortByOrder(Append(existing, metadata))
    IN  ReflectDefineMetadata(st, METADATA_KEYS.API_TAGS, updated, target)

getHandlerMetadata(st, target) ==
    [ operation |-> getOperation(st, target),
      responses |-> getResponses(st, target),
      params    |-> getParams(st, target),
      queries   |-> getQueries(st, target),
      body      |-> getBody(st, target),
      security  |-> getSecurity(st, target),
      tags      |-> getTags(st, target) ]

\* Mutant: the tags are not looked at.
hasMetadataNoTags(st, target) ==
    \/ getOperation(st, target) # undefined
    \/ Len(getResponses(st, target)) > 0
    \/ Len(getParams(st, target)) > 0
    \/ Len(getQueries(st, target)) > 0
    \/ getBody(st, target) # undefined
    \/ Len(getSecurity(st, target)) > 0

hasMetadata(st, target) ==
    \/ getOperation(st, target) # undefined
    \/ Len(getResponses(st, target)) > 0
    \/ Len(getParams(st, target)) > 0
    \/ Len(getQueries(st, target)) > 0
    \/ getBody(st, target) # undefined
    \/ Len(getSecurity(st, target)) > 0
    \/ Len(getTags(st, target)) > 0

\* Mutant: the tags are not deleted.
clearMetadataOfKeepsTags(st, target) ==
    [st EXCEPT ![target] =
        [k \in (DOMAIN st[target]) \cap {METADATA_KEYS.API_TAGS} |-> st[target][k]]]

clearMetadataOf(st, target) ==
    LET s1 == ReflectDeleteMetadata(st, METADATA_KEYS.API_OPERATION, target)
        s2 == ReflectDeleteMetadata(s1, METADATA_KEYS.API_RESPONSES, target)
        s3 == ReflectDeleteMetadata(s2, METADATA_KEYS.API_PARAMS, target)
        s4 == ReflectDeleteMetadata(s3, METADATA_KEYS.API_QUERIES, target)
        s5 == ReflectDeleteMetadata(s4, METADATA_KEYS.API_BODY, target)
        s6 == ReflectDeleteMetadata(s5, METADATA_KEYS.API_SECURITY, target)
    IN  ReflectDeleteMetadata(s6, METADATA_KEYS.API_TAGS, target)

getExistingMetadataKeys(st, target) ==
    LET push(present, key) == IF present THEN <<key>> ELSE <<>>
    IN  push(getOperation(st, target) # undefined, METADATA_KEYS.API_OPERATION)
        \o push(Len(getResponses(st, target)) > 0, METADATA_KEYS.API_RESPONSES)
        \o push(Len(getParams(st, target)) > 0, METADATA_KEYS.API_PARAMS)
        \o push(Len(getQueries(st, target)) > 0, METADATA_KEYS.API_QUERIES)
        \o push(getBody(st, target) # undefined, METADATA_KEYS.API_BODY)
        \o push(Len(getSecurity(st, target)) > 0, METADATA_KEYS.API_SECURITY)
        \o push(Len(getTags(st, target)) > 0, METADATA_KEYS.API_TAGS)

-----------------------------------------------------------------------------
(* The decorators *)

\* Collection entries the whole store holds (the bound of the model is on this).
RECURSIVE SumLen(_, _)
SumLen(st, hs) ==
    IF hs = {} THEN 0
    ELSE LET h == CHOOSE x \in hs : TRUE
         IN  Len(getResponses(st, h)) + Len(getParams(st, h)) + Len(getQueries(st, h))
             + Len(getSecurity(st, h)) + Len(getTags(st, h)) + SumLen(st, hs \ {h})

TotalEntries == SumLen(store, Handlers)

Record(key, target, metadata) ==
    [applied EXCEPT ![target][key] = Append(@, metadata)]

\* Mutant: the counter is incremented before it is read (++responseOrder).
ResponseMetadataPreIncrement(options, counter) ==
    [ status      |-> options.status,
      description |-> options.description,
      type        |-> options.type,
      example     |-> options.example,
      headers     |-> options.headers,
      content     |-> options.content,
      order       |-> counter + 1 ]

\* The record ApiResponse builds from its options and the counter.
ResponseMetadata(options, counter) ==
    [ status      |-> options.status,
      description |-> options.description,
      type        |-> options.type,
      example     |-> options.example,
      headers     |-> options.headers,
      content     |-> options.content,
      order       |-> counter ]

\* ApiResponse(options)(target): target is the decorated function (descriptor.value
\* for a method decorator).
ApiResponse(target, options) ==
    /\ LET metadata == ResponseMetadata(options, responseOrder)
       IN  /\ responseOrder' = responseOrder + 1
           /\ store' = addResponse(store, target, metadata)
           /\ applied' = Record(METADATA_KEYS.API_RESPONSES, target, metadata)
    /\ fresh' = [fresh EXCEPT ![target][METADATA_KEYS.API_RESPONSES] = @ + 1]
    /\ sinceReset' = [sinceReset EXCEPT ![METADATA_KEYS.API_RESPONSES] = @ + 1]
    /\ last' = Did("ApiResponse", target, options, undefined)
    /\ document' = undefined
    /\ visited' = <<>>
    /\ UNCHANGED <<paramOrder, heap>>

\* Mutant: one reset for both counters.
resetEveryOrder ==
    /\ responseOrder' = 0
    /\ paramOrder' = 0
    /\ fresh' = [h \in Handlers |-> [fresh[h] EXCEPT ![METADATA_KEYS.API_RESPONSES] = 0]]
    /\ sinceReset' = [sinceReset EXCEPT ![METADATA_KEYS.API_RESPONSES] = 0]
    /\ last' = Did("resetResponseOrder", "none", undefined, undefined)
    /\ document' = undefined
    /\ visited' = <<>>
    /\ UNCHANGED <<store, heap, applied>>

resetResponseOrder ==
    /\ responseOrder' = 0
    /\ fresh' = [h \in Handlers |-> [fresh[h] EXCEPT ![METADATA_KEYS.API_RESPONSES] = 0]]
    /\ sinceReset' = [sinceReset EXCEPT ![METADATA_KEYS.API_RESPONSES] = 0]
    /\ last' = Did("resetResponseOrder", "none", undefined, undefined)
    /\ document' = undefined
    /\ visited' = <<>>
    /\ UNCHANGED <<store, paramOrder, heap, applied>>

\* Mutant: required is options.required || true.
ParamMetadataRequiredOr(options, counter) ==
    [ name        |-> options.name,
      description |-> options.description,
      required    |-> IF TruthyBoolean(options.required) THEN Get(options.required) ELSE TRUE,
      type        |-> options.type,
      example     |-> options.example,
      enum        |-> options.enum,
      deprecated  |-> options.deprecated,
      in          |-> "path",
      order       |-> counter ]

\* The record ApiParam builds from its options and the counter.
ParamMetadata(options, counter) ==
    [ name        |-> options.name,
      description |-> options.description,
      required    |-> IF options.required # undefined THEN Get(options.required) ELSE TRUE,
      type        |-> options.type,
      example     |-> options.example,
      enum        |-> options.enum,
      deprecated  |-> options.deprecated,
      in          |-> "path",
      order       |-> counter ]

\* Mutant: ApiParam numbers its entries with the response counter.
ApiParamSharedCounter(target, options) ==
    /\ LET metadata == ParamMetadata(options, responseOrder)
       IN  /\ responseOrder' = responseOrder + 1
           /\ store' = addParam(store, target, metadata)
           /\ applied' = Record(METADATA_KEYS.API_PARAMS, target, metadata)
    /\ fresh' = [fresh EXCEPT ![target][METADATA_KEYS.API_PARAMS] = @ + 1]
    /\ sinceReset' = [sinceReset EXCEPT ![METADATA_KEYS.API_PARAMS] = @ + 1]
    /\ last' = Did("ApiParam", target, options, undefined)
    /\ document' = undefined
    /\ visited' = <<>>
    /\ UNCHANGED <<paramOrder, heap>>

ApiParam(target, options) ==
    /\ LET metadata == ParamMetadata(options, paramOrder)
       IN  /\ paramOrder' = paramOrder + 1
           /\ store' = addParam(store, target, metadata)
           /\ applied' = Record(METADATA_KEYS.API_PARAMS, target, metadata)
    /\ fresh' = [fresh EXCEPT ![target][METADATA_KEYS.API_PARAMS] = @ + 1]
    /\ sinceReset' = [sinceReset EXCEPT ![METADATA_KEYS.API_PARAMS] = @ + 1]
    /\ last' = Did("ApiParam", target, options, undefined)
    /\ document' = undefined
    /\ visited' = <<>>
    /\ UNCHANGED <<responseOrder, heap>>

resetParamOrder ==
    /\ paramOrder' = 0
    /\ fresh' = [h \in Handlers |-> [fresh[h] EXCEPT ![METADATA_KEYS.API_PARAMS] = 0]]
    /\ sinceReset' = [sinceReset EXCEPT ![METADATA_KEYS.API_PARAMS] = 0]
    /\ last' = Did("resetParamOrder", "none", undefined, undefined)
    /\ document' = undefined
    /\ visited' = <<>>
    /\ UNCHANGED <<store, responseOrder, heap, applied>>

\* The record ApiOperation builds: the name is the property key of a method
\* decorator, else the function's name, else 'anonymous'.
OperationMetadata(targetName, propertyKey, options) ==
    [ functionName |-> IF TruthyString(propertyKey) THEN Get(propertyKey)
                       ELSE IF targetName # <<>> THEN targetName
                       ELSE <<"a","n","o","n","y","m","o","u","s">>,
      summary      |-> options.summary,
      description  |-> options.description,
      tags         |-> options.tags,
      operationId  |-> options.operationId,
      deprecated   |-> options.deprecated ]

ApiOperation(target, propertyKey, options) ==
    /\ store' = setOperation(store, target,
                             OperationMetadata(HandlerName(target), propertyKey, options))
    /\ last' = Did("ApiOperation", target,
                    [propertyKey |-> propertyKey, options |-> options], getOperation(store, target))
    /\ document' = undefined
    /\ visited' = <<>>
    /\ UNCHANGED <<responseOrder, paramOrder, heap, applied, fresh, sinceReset>>

\* Mutant: a clear also restarts both counters.
clearMetadataResetsCounters(target) ==
    /\ store' = clearMetadataOf(store, target)
    /\ responseOrder' = 0
    /\ paramOrder' = 0
    /\ applied' = [applied EXCEPT ![target] = [k \in CollectionKeys |-> <<>>]]
    /\ fresh' = [fresh EXCEPT ![target] = [k \in CollectionKeys |-> 0]]
    /\ last' = Did("clearMetadata", target, undefined,
                    Some(getExistingMetadataKeys(store, target)))
    /\ document' = undefined
    /\ visited' = <<>>
    /\ UNCHANGED <<heap, sinceReset>>

clearMetadata(target) ==
    /\ store' = clearMetadataOf(store, target)
    /\ applied' = [applied EXCEPT ![target] = [k \in CollectionKeys |-> <<>>]]
    /\ fresh' = [fresh EXCEPT ![target] = [k \in CollectionKeys |-> 0]]
    /\ last' = Did("clearMetadata", target, undefined,
                    Some(getExistingMetadataKeys(store, target)))
    /\ document' = undefined
    /\ visited' = <<>>
    /\ UNCHANGED <<responseOrder, paramOrder, heap, sinceReset>>

getApiResponses(target) == getResponses(store, target)

getApiParams(target) == getParams(store, target)

\* Mutant: the last match instead of the first (findLast).
getApiResponseLast(target, status) ==
    LET s == getResponses(store, target)
        hits == { i \in 1..Len(s) : s[i].status = status }
    IN  IF hits = {} THEN undefined
        ELSE Some(s[CHOOSE i \in hits : \A j \in hits : j <= i])

\* Array.prototype.find: the first element that satisfies the test, or undefined.
getApiResponse(target, status) ==
    LET responses == getResponses(store, target)
        matches == { i \in 1..Len(responses) : responses[i].status = status }
    IN  IF matches = {} THEN undefined
        ELSE Some(responses[CHOOSE i \in matches : \A j \in matches : i <= j])

getApiParam(target, name) ==
    LET params == getParams(store, target)
        matches == { i \in 1..Len(params) : params[i].name = name }
    IN  IF matches = {} THEN undefined
        ELSE Some(params[CHOOSE i \in matches : \A j \in matches : i <= j])

getApiOperation(target) == getOperation(store, target)

-----------------------------------------------------------------------------
(* Strings the generator inspects or builds, as sequences of characters *)

UpperCase ==
    <<"A","B","C","D","E","F","G","H","I","J","K","L","M",
      "N","O","P","Q","R","S","T","U","V","W","X","Y","Z">>

LowerCase ==
    <<"a","b","c","d","e","f","g","h","i","j","k","l","m",
      "n","o","p","q","r","s","t","u","v","w","x","y","z">>

IsUpper(c) == \E i \in 1..Len(UpperCase) : UpperCase[i] = c

ToLowerChar(c) ==
    IF IsUpper(c) THEN LowerCase[CHOOSE i \in 1..Len(UpperCase) : UpperCase[i] = c] ELSE c

\* String.prototype.toLowerCase
ToLowerCase(s) == [i \in 1..Len(s) |-> ToLowerChar(s[i])]

\* String.prototype.includes
Includes(s, w) ==
    \E i \in 0..(Len(s) - Len(w)) : SubSeq(s, i + 1, i + Len(w)) = w

EndsWith(s, w) == Len(s) >= Len(w) /\ SubSeq(s, Len(s) - Len(w) + 1, Len(s)) = w

\* replace(/([A-Z])/g, '-$1')
RECURSIVE DashBeforeUpper(_)
DashBeforeUpper(s) ==
    IF s = <<>> THEN <<>>
    ELSE (IF IsUpper(Head(s)) THEN <<"-", Head(s)>> ELSE <<Head(s)>>) \o DashBeforeUpper(Tail(s))

\* Number.prototype.toString of a non-negative integer
Digits == <<"0","1","2","3","4","5","6","7","8","9">>

RECURSIVE NumberToString(_)
NumberToString(n) ==
    IF n < 10 THEN <<Digits[n + 1]>>
    ELSE NumberToString(n \div 10) \o <<Digits[(n % 10) + 1]>>

-----------------------------------------------------------------------------
(* OpenApiGenerator *)

\* Mutant: the leading dash is kept.
generatePathFromFunctionKeepDash(functionName) ==
    LET handlerSuffix == <<"H","a","n","d","l","e","r">>
        stripped == IF EndsWith(functionName, handlerSuffix)
                    THEN SubSeq(functionName, 1, Len(functionName) - Len(handlerSuffix))
                    ELSE functionName
    IN  <<"/">> \o ToLowerCase(DashBeforeUpper(stripped))

\* Mutant: the path is the kebab-case name, without the '/'.
generatePathFromFunctionNoSlash(functionName) ==
    LET handlerSuffix == <<"H","a","n","d","l","e","r">>
        stripped == IF EndsWith(functionName, handlerSuffix)
                    THEN SubSeq(functionName, 1, Len(functionName) - Len(handlerSuffix))
                    ELSE functionName
        lowered == ToLowerCase(DashBeforeUpper(stripped))
    IN  IF lowered # <<>> /\ Head(lowered) = "-" THEN Tail(lowered) ELSE lowered

generatePathFromFunction(functionName) ==
    LET handlerSuffix == <<"H","a","n","d","l","e","r">>
        stripped == IF EndsWith(functionName, handlerSuffix)
                    THEN SubSeq(functionName, 1, Len(functionName) - Len(handlerSuffix))
                    ELSE functionName
        lowered == ToLowerCase(DashBeforeUpper(stripped))
        pathName == IF lowered # <<>> /\ Head(lowered) = "-" THEN Tail(lowered) ELSE lowered
    IN  <<"/">> \o pathName

\* Mutant: the post / create rule is tested before the get / list / find rule.
determineHttpMethodPostFirst(functionName) ==
    LET lowerName == ToLowerCase(functionName)
    IN  IF Includes(lowerName, <<"p","o","s","t">>)
           \/ Includes(lowerName, <<"c","r","e","a","t","e">>)
        THEN "post"
        ELSE IF \/ Includes(lowerName, <<"g","e","t">>)
                \/ Includes(lowerName, <<"l","i","s","t">>)
                \/ Includes(lowerName, <<"f","i","n","d">>)
        THEN "get"
        ELSE IF Includes(lowerName, <<"p","u","t">>)
                \/ Includes(lowerName, <<"u","p","d","a","t","e">>)
        THEN "put"
        ELSE IF Includes(lowerName, <<"d","e","l","e","t","e">>)
                \/ Includes(lowerName, <<"r","e","m","o","v","e">>)
        THEN "delete"
        ELSE IF Includes(lowerName, <<"p","a","t","c","h">>)
        THEN "patch"
        ELSE "get"

determineHttpMethod(functionName) ==
    LET lowerName == ToLowerCase(functionName)
    IN  IF \/ Includes(lowerName, <<"g","e","t">>)
           \/ Includes(lowerName, <<"l","i","s","t">>)
           \/ Includes(lowerName, <<"f","i","n","d">>)
        THEN "get"
        ELSE IF Includes(lowerName, <<"p","o","s","t">>)
                \/ Includes(lowerName, <<"c","r","e","a","t","e">>)
        THEN "post"
        ELSE IF Includes(lowerName, <<"p","u","t">>)
                \/ Includes(lowerName, <<"u","p","d","a","t","e">>)
        THEN "put"
        ELSE IF Includes(lowerName, <<"d","e","l","e","t","e">>)
                \/ Includes(lowerName, <<"r","e","m","o","v","e">>)
        THEN "delete"
        ELSE IF Includes(lowerName, <<"p","a","t","c","h">>)
        THEN "patch"
        ELSE "get"

\* Mutant: 'array' has no items, and an unknown string is an object.
generateSchemaFromStringTypeStrict(type) ==
    CASE type = "string"  -> [type |-> "string"]
      [] type = "number"  -> [type |-> "number"]
      [] type = "integer" -> [type |-> "integer"]
      [] type = "boolean" -> [type |-> "boolean"]
      [] type = "array"   -> [type |-> "array"]
      [] OTHER            -> [type |-> "object"]

generateSchemaFromStringType(type) ==
    CASE type = "string"  -> [type |-> "string"]
      [] type = "number"  -> [type |-> "number"]
      [] type = "integer" -> [type |-> "integer"]
      [] type = "boolean" -> [type |-> "boolean"]
      [] type = "array"   -> [type |-> "array", items |-> [type |-> "string"]]
      [] type = "object"  -> [type |-> "object"]
      [] OTHER            -> [type |-> "string"]

\* A type reference is [typeof |-> "string", value |-> s] or
\* [typeof |-> "function", name |-> declared name] or a value of another type.
generateSchemaFromType(typeRef) ==
    IF typeRef.typeof = "string" THEN generateSchemaFromStringType(typeRef.value)
    ELSE IF typeRef.typeof = "function"
    THEN [ type |-> "object",
           description |-> <<"S","c","h","e","m","a"," ","f","o","r"," ">> \o typeRef.name ]
    ELSE [type |-> "object"]

\* `if (x.type)`: a type reference is falsy when undefined or the empty string.
TruthyType(m) == m # undefined /\ ~(Get(m).typeof = "string" /\ Get(m).value = "")

\* Mutant: every parameter is required.
generateParameterAlwaysRequired(paramMetadata) ==
    [ name |-> paramMetadata.name, in |-> paramMetadata.in, required |-> TRUE ]

\* Mutant: the enum values replace the schema of the type.
generateParameterEnumOnly(paramMetadata) ==
    LET base == [ name |-> paramMetadata.name,
                  in |-> paramMetadata.in,
                  required |-> paramMetadata.required ]
        schema == IF paramMetadata.enum # undefined
                  THEN [schema |-> [enum |-> Get(paramMetadata.enum)]]
                  ELSE IF TruthyType(paramMetadata.type)
                  THEN [schema |-> generateSchemaFromType(Get(paramMetadata.type))]
                  ELSE EmptyObject
    IN  base @@ schema

generateParameter(paramMetadata) ==
    LET base == [ name |-> paramMetadata.name,
                  in |-> paramMetadata.in,
                  required |-> paramMetadata.required ]
        description == IF TruthyString(paramMetadata.description)
                       THEN [description |-> Get(paramMetadata.description)] ELSE EmptyObject
        deprecated == IF TruthyBoolean(paramMetadata.deprecated)
                      THEN [deprecated |-> Get(paramMetadata.deprecated)] ELSE EmptyObject
        example == IF paramMetadata.example # undefined
                   THEN [example |-> Get(paramMetadata.example)] ELSE EmptyObject
        typed == IF TruthyType(paramMetadata.type)
                 THEN generateSchemaFromType(Get(paramMetadata.type)) ELSE EmptyObject
        schema == IF paramMetadata.enum # undefined
                  THEN [schema |-> [enum |-> Get(paramMetadata.enum)] @@ typed]
                  ELSE IF TruthyType(paramMetadata.type) THEN [schema |-> typed]
                  ELSE EmptyObject
    IN  base @@ description @@ deprecated @@ example @@ schema

JSON == "application/json"

\* Mutant: a response already recorded under the status code is kept (and
\* examples are not copied).
generateResponseFirstWins(acc, responseMeta) ==
    LET statusCode == NumberToString(responseMeta.status)
        description == IF TruthyString(responseMeta.description)
                       THEN Get(responseMeta.description)
                       ELSE <<"R","e","s","p","o","n","s","e"," ">> \o statusCode
        typed == IF TruthyType(responseMeta.type) /\ responseMeta.content = undefined
                 THEN [content |->
                         [own |-> (JSON :> [schema |-> generateSchemaFromType(Get(responseMeta.type))])]]
                 ELSE IF responseMeta.content # undefined
                 THEN [content |-> [ref |-> Get(responseMeta.content)]]
                 ELSE EmptyObject
    IN  [ responses |-> acc.responses @@ (statusCode :> ([description |-> description] @@ typed)),
          heap |-> acc.heap ]

\* Mutant: custom content is used only when there is no type reference.
generateResponseTypeFirst(acc, responseMeta) ==
    LET statusCode == NumberToString(responseMeta.status)
        description == IF TruthyString(responseMeta.description)
                       THEN Get(responseMeta.description)
                       ELSE <<"R","e","s","p","o","n","s","e"," ">> \o statusCode
        custom == IF responseMeta.content # undefined
                  THEN [content |-> [ref |-> Get(responseMeta.content)]]
                  ELSE EmptyObject
        withContent == IF TruthyType(responseMeta.type)
                       THEN [content |->
                               [own |-> (JSON :> [schema |-> generateSchemaFromType(Get(responseMeta.type))])]]
                       ELSE custom
        hasExample == responseMeta.example # undefined
        ownJson == /\ hasExample
                   /\ "content" \in DOMAIN withContent
                   /\ "own" \in DOMAIN withContent.content
        refJson == /\ hasExample
                   /\ "content" \in DOMAIN withContent
                   /\ "ref" \in DOMAIN withContent.content
                   /\ JSON \in DOMAIN acc.heap[withContent.content.ref]
        final == IF ownJson
                 THEN [content |->
                         [own |-> (JSON :> ([example |-> Get(responseMeta.example)]
                                            @@ withContent.content.own[JSON]))]]
                 ELSE withContent
        response == [description |-> description] @@ final
    IN  [ responses |-> (statusCode :> response) @@ acc.responses,
          heap |-> IF refJson
                   THEN [acc.heap EXCEPT ![withContent.content.ref] =
                           (JSON :> ([example |-> Get(responseMeta.example)] @@ @[JSON])) @@ @]
                   ELSE acc.heap ]

\* One iteration of the forEach of generateResponses: acc is
\* [responses |-> the map built so far, heap |-> the content objects].
\* A response's content is an object the generator created ([own |-> media map])
\* or the caller's object itself ([ref |-> reference]).
generateResponse(acc, responseMeta) ==
    LET statusCode == NumberToString(responseMeta.status)
        description == IF TruthyString(responseMeta.description)
                       THEN Get(responseMeta.description)
                       ELSE <<"R","e","s","p","o","n","s","e"," ">> \o statusCode
        typed == IF TruthyType(responseMeta.type)
                 THEN [content |->
                         [own |-> (JSON :> [schema |-> generateSchemaFromType(Get(responseMeta.type))])]]
                 ELSE EmptyObject
        withContent == IF responseMeta.content # undefined
                       THEN [content |-> [ref |-> Get(responseMeta.content)]]
                       ELSE typed
        hasExample == responseMeta.example # undefined
        ownJson == /\ hasExample
                   /\ "content" \in DOMAIN withContent
                   /\ "own" \in DOMAIN withContent.content
        refJson == /\ hasExample
                   /\ "content" \in DOMAIN withContent
                   /\ "ref" \in DOMAIN withContent.content
                   /\ JSON \in DOMAIN acc.heap[withContent.content.ref]
        final == IF ownJson
                 THEN [content |->
                         [own |-> (JSON :> ([example |-> Get(responseMeta.example)]
                                            @@ withContent.content.own[JSON]))]]
                 ELSE withContent
        response == [description |-> description] @@ final
    IN  [ responses |-> (statusCode :> response) @@ acc.responses,
          heap |-> IF refJson
                   THEN [acc.heap EXCEPT ![withContent.content.ref] =
                           (JSON :> ([example |-> Get(responseMeta.example)] @@ @[JSON])) @@ @]
                   ELSE acc.heap ]

\* Mutant: the entries are visited from the last to the first.
RECURSIVE ForEachResponseReversed(_, _)
ForEachResponseReversed(acc, responseMetadata) ==
    IF responseMetadata = <<>> THEN acc
    ELSE ForEachResponseReversed(
             generateResponse(acc, responseMetadata[Len(responseMetadata)]),
             SubSeq(responseMetadata, 1, Len(responseMetadata) - 1))

RECURSIVE ForEachResponse(_, _)
ForEachResponse(acc, responseMetadata) ==
    IF responseMetadata = <<>> THEN acc
    ELSE ForEachResponse(generateResponse(acc, Head(responseMetadata)), Tail(responseMetadata))

\* Mutant: the default 200 response is added whenever no entry has status 200.
generateResponsesAlwaysDefault(responseMetadata, hp) ==
    LET done == ForEachResponse([responses |-> EmptyObject, heap |-> hp], responseMetadata)
    IN  [ responses |->
            done.responses @@
            (<<"2","0","0">> :>
               [description |-> <<"S","u","c","c","e","s","s","f","u","l"," ",
                                  "r","e","s","p","o","n","s","e">>]),
          heap |-> done.heap ]

\* Returns [responses, heap]: the responses map and the content objects after the call.
generateResponses(responseMetadata, hp) ==
    LET done == ForEachResponse([responses |-> EmptyObject, heap |-> hp], responseMetadata)
    IN  IF DOMAIN done.responses = {}
        THEN [ responses |->
                 (<<"2","0","0">> :>
                    [description |-> <<"S","u","c","c","e","s","s","f","u","l"," ",
                                       "r","e","s","p","o","n","s","e">>]),
               heap |-> done.heap ]
        ELSE done

\* Returns [operation, heap].
\* Mutant: the body metadata becomes the operation's requestBody.
generateOperationWithBody(metadata, hp) ==
    LET op == IF metadata.operation # undefined
              THEN [ summary     |-> Get(metadata.operation).summary,
                     description |-> Get(metadata.operation).description,
                     tags        |-> Get(metadata.operation).tags,
                     operationId |-> Get(metadata.operation).operationId,
                     deprecated  |-> Get(metadata.operation).deprecated ]
              ELSE EmptyObject
        parameters == IF Len(metadata.params) > 0
                      THEN [parameters |->
                              [i \in 1..Len(metadata.params) |-> generateParameter(metadata.params[i])]]
                      ELSE EmptyObject
        requestBody == IF metadata.body # undefined
                       THEN [requestBody |-> [required |-> Get(metadata.body).required]]
                       ELSE EmptyObject
        generated == generateResponses(metadata.responses, hp)
    IN  [ operation |-> [responses |-> generated.responses] @@ op @@ parameters @@ requestBody,
          heap |-> generated.heap ]

generateOperation(metadata, hp) ==
    LET op == IF metadata.operation # undefined
              THEN [ summary     |-> Get(metadata.operation).summary,
                     description |-> Get(metadata.operation).description,
                     tags        |-> Get(metadata.operation).tags,
                     operationId |-> Get(metadata.operation).operationId,
                     deprecated  |-> Get(metadata.operation).deprecated ]
              ELSE EmptyObject
        parameters == IF Len(metadata.params) > 0
                      THEN [parameters |->
                              [i \in 1..Len(metadata.params) |-> generateParameter(metadata.params[i])]]
                      ELSE EmptyObject
        generated == generateResponses(metadata.responses, hp)
    IN  [ operation |-> [responses |-> generated.responses] @@ op @@ parameters,
          heap |-> generated.heap ]

\* Mutant: an operation already recorded at the path and method is kept.
generatePathFirstWins(acc, st, handler) ==
    LET metadata == getHandlerMetadata(st, handler)
    IN  IF metadata.operation = undefined THEN acc
        ELSE LET path == generatePathFromFunction(Get(metadata.operation).functionName)
                 generated == generateOperation(metadata, acc.heap)
                 method == determineHttpMethod(Get(metadata.operation).functionName)
                 item == IF path \in DOMAIN acc.paths THEN acc.paths[path] ELSE EmptyObject
             IN  [ paths |-> (path :> (item @@ (method :> generated.operation))) @@ acc.paths,
                   heap |-> generated.heap ]

\* One iteration of the forEach of generatePaths: acc is [paths, heap].
generatePath(acc, st, handler) ==
    LET metadata == getHandlerMetadata(st, handler)
    IN  IF metadata.operation = undefined THEN acc
        ELSE LET path == generatePathFromFunction(Get(metadata.operation).functionName)
                 generated == generateOperation(metadata, acc.heap)
                 method == determineHttpMethod(Get(metadata.operation).functionName)
                 item == IF path \in DOMAIN acc.paths THEN acc.paths[path] ELSE EmptyObject
             IN  [ paths |-> (path :> ((method :> generated.operation) @@ item)) @@ acc.paths,
                   heap |-> generated.heap ]

\* Mutant: the loop ends at the first handler without OperationMetadata.
RECURSIVE ForEachHandlerUntilSkip(_, _, _)
ForEachHandlerUntilSkip(acc, st, handlers) ==
    IF handlers = <<>> \/ getOperation(st, Head(handlers)) = undefined THEN acc
    ELSE ForEachHandlerUntilSkip([visited |-> Append(acc.visited, Head(handlers))]
                                     @@ generatePath(acc, st, Head(handlers)),
                                 st, Tail(handlers))

\* Array.prototype.forEach over the handlers: acc is [paths, heap, visited].
RECURSIVE ForEachHandler(_, _, _)
ForEachHandler(acc, st, handlers) ==
    IF handlers = <<>> THEN acc
    ELSE ForEachHandler([visited |-> Append(acc.visited, Head(handlers))]
                            @@ generatePath(acc, st, Head(handlers)),
                        st, Tail(handlers))

\* Mutant: the loop starts at the second handler.
generatePathsFromSecond(st, hp, handlers) ==
    ForEachHandler([paths |-> EmptyObject, heap |-> hp, visited |-> <<>>], st,
                   IF handlers = <<>> THEN <<>> ELSE Tail(handlers))

\* Returns [paths, heap, visited].
generatePaths(st, hp, handlers) ==
    ForEachHandler([paths |-> EmptyObject, heap |-> hp, visited |-> <<>>], st, handlers)

\* Mutant: components has an (empty) schemas section.
generateComponentsSchemas(handlers) == [schemas |-> EmptyObject]

generateComponents(handlers) == EmptyObject

\* Returns [spec, heap, visited]: the document, the content objects after the call
\* and the handlers visited.
generateSpecOf(config, st, hp, handlers) ==
    LET optional(key) == IF key \in DOMAIN config THEN (key :> config[key]) ELSE EmptyObject
        handlerPaths == generatePaths(st, hp, handlers)
    IN  [ spec |-> [ openapi |-> "3.0.0",
                     info |-> config.info,
                     paths |-> handlerPaths.paths,
                     components |-> generateComponents(handlers) ]
                   @@ optional("servers") @@ optional("security")
                   @@ optional("tags") @@ optional("externalDocs"),
          heap |-> handlerPaths.heap,
          visited |-> handlerPaths.visited ]

generateSpec(config, handlers) ==
    LET result == generateSpecOf(config, store, heap, handlers)
    IN  /\ document' = Some(result.spec)
        /\ heap' = result.heap
        /\ visited' = result.visited
        /\ last' = Did("generateSpec", "none", [config |-> config, handlers |-> handlers], undefined)
        /\ UNCHANGED <<store, responseOrder, paramOrder, applied, fresh, sinceReset>>

-----------------------------------------------------------------------------
(* JSON.stringify and JSON.parse of a document *)

\* JSON text, as the tree of its values: a literal, an array of values in
\* order, an object of named members.
JValue(v) == [json |-> "value", value |-> v]
JArray(items) == [json |-> "array", items |-> items]
JObject(members) == [json |-> "object", members |-> members]

\* An object all of whose members are strings, numbers or booleans.
stringifyFlat(object) == JObject([k \in DOMAIN object |-> JValue(object[k])])

stringifyList(array) == JArray([i \in 1..Len(array) |-> JValue(array[i])])

stringifySchema(schema) ==
    JObject([k \in DOMAIN schema |->
               CASE k = "items" -> stringifyFlat(schema[k])
                 [] k = "enum"  -> stringifyList(schema[k])
                 [] OTHER       -> JValue(schema[k])])

stringifyMediaType(media) ==
    JObject([k \in DOMAIN media |->
               IF k = "schema" THEN stringifySchema(media[k]) ELSE JValue(media[k])])

\* A content object is written out where it is referred to.
stringifyContent(content, hp) ==
    LET object == IF "ref" \in DOMAIN content THEN hp[content.ref] ELSE content.own
    IN  JObject([k \in DOMAIN object |-> stringifyMediaType(object[k])])

stringifyResponse(response, hp) ==
    JObject([k \in DOMAIN response |->
               IF k = "content" THEN stringifyContent(response[k], hp)
               ELSE JValue(response[k])])

stringifyParameter(parameter) ==
    JObject([k \in DOMAIN parameter |->
               IF k = "schema" THEN stringifySchema(parameter[k]) ELSE JValue(parameter[k])])

\* The members of an operation that may hold undefined.
OptionalMembers == { "description", "tags", "operationId", "deprecated" }

\* A member whose value is undefined is not written.
stringifyOperation(operation, hp) ==
    LET written == { k \in DOMAIN operation :
                       k \in OptionalMembers => operation[k] # undefined }
    IN  JObject([k \in written |->
                   CASE k = "responses" ->
                          JObject([s \in DOMAIN operation[k] |->
                                     stringifyResponse(operation[k][s], hp)])
                     [] k = "parameters" ->
                          JArray([i \in 1..Len(operation[k]) |->
                                    stringifyParameter(operation[k][i])])
                     [] k = "tags" -> stringifyList(Get(operation[k]))
                     [] k \in OptionalMembers \ {"tags"} -> JValue(Get(operation[k]))
                     [] OTHER -> JValue(operation[k])])

stringifyPaths(paths, hp) ==
    JObject([p \in DOMAIN paths |->
               JObject([method \in DOMAIN paths[p] |->
                          stringifyOperation(paths[p][method], hp)])])

JSONstringify(spec, hp) ==
    JObject([k \in DOMAIN spec |->
               CASE k = "openapi" -> JValue(spec[k])
                 [] k = "paths" -> stringifyPaths(spec[k], hp)
                 [] k \in {"info", "components", "externalDocs"} -> stringifyFlat(spec[k])
                 [] k \in {"servers", "tags"} ->
                      JArray([i \in 1..Len(spec[k]) |-> stringifyFlat(spec[k][i])])
                 [] k = "security" ->
                      JArray([i \in 1..Len(spec[k]) |->
                                JObject([scheme \in DOMAIN spec[k][i] |->
                                           stringifyList(spec[k][i][scheme])])])])

parseFlat(text) == [k \in DOMAIN text.members |-> text.members[k].value]

parseList(text) == [i \in 1..Len(text.items) |-> text.items[i].value]

parseSchema(text) ==
    [k \in DOMAIN text.members |->
        CASE k = "items" -> parseFlat(text.members[k])
          [] k = "enum"  -> parseList(text.members[k])
          [] OTHER       -> text.members[k].value]

parseMediaType(text) ==
    [k \in DOMAIN text.members |->
        IF k = "schema" THEN parseSchema(text.members[k]) ELSE text.members[k].value]

\* Every object of the parsed document is an object of its own.
parseContent(text) ==
    [own |-> [k \in DOMAIN text.members |-> parseMediaType(text.members[k])]]

parseResponse(text) ==
    [k \in DOMAIN text.members |->
        IF k = "content" THEN parseContent(text.members[k]) ELSE text.members[k].value]

parseParameter(text) ==
    [k \in DOMAIN text.members |->
        IF k = "schema" THEN parseSchema(text.members[k]) ELSE text.members[k].value]

parseOperation(text) ==
    [k \in DOMAIN text.members |->
        CASE k = "responses" ->
               [s \in DOMAIN text.members[k].members |->
                  parseResponse(text.members[k].members[s])]
          [] k = "parameters" ->
               [i \in 1..Len(text.members[k].items) |->
                  parseParameter(text.members[k].items[i])]
          [] k = "tags" -> Some(parseList(text.members[k]))
          [] k \in OptionalMembers \ {"tags"} -> Some(text.members[k].value)
          [] OTHER -> text.members[k].value]

parsePaths(text) ==
    [p \in DOMAIN text.members |->
        [method \in DOMAIN text.members[p].members |->
            parseOperation(text.members[p].members[method])]]

JSONparse(text) ==
    [k \in DOMAIN text.members |->
        CASE k = "openapi" -> text.members[k].value
          [] k = "paths" -> parsePaths(text.members[k])
          [] k \in {"info", "components", "externalDocs"} -> parseFlat(text.members[k])
          [] k \in {"servers", "tags"} ->
               [i \in 1..Len(text.members[k].items) |-> parseFlat(text.members[k].items[i])]
          [] k = "security" ->
               [i \in 1..Len(text.members[k].items) |->
                  [scheme \in DOMAIN text.members[k].items[i].members |->
                      parseList(text.members[k].items[i].members[scheme])]]]

-----------------------------------------------------------------------------
(* Direct calls of MetadataManager *)

Add(key, st, target, metadata) ==
    CASE key = METADATA_KEYS.API_RESPONSES -> addResponse(st, target, metadata)
      [] key = METADATA_KEYS.API_PARAMS    -> addParam(st, target, metadata)
      [] key = METADATA_KEYS.API_QUERIES   -> addQuery(st, target, metadata)
      [] key = METADATA_KEYS.API_SECURITY  -> addSecurity(st, target, metadata)
      [] key = METADATA_KEYS.API_TAGS      -> addTag(st, target, metadata)

\* MetadataManager.addResponse / addParam / addQuery / addSecurity / addTag
ManagerAdd(key, target, metadata) ==
    /\ store' = Add(key, store, target, metadata)
    /\ applied' = Record(key, target, metadata)
    /\ last' = Did("add", target, [key |-> key, metadata |-> metadata], undefined)
    /\ document' = undefined
    /\ visited' = <<>>
    /\ UNCHANGED <<responseOrder, paramOrder, heap, fresh, sinceReset>>

\* MetadataManager.setBody
ManagerSetBody(target, metadata) ==
    /\ store' = setBody(store, target, metadata)
    /\ last' = Did("setBody", target, metadata, getBody(store, target))
    /\ document' = undefined
    /\ visited' = <<>>
    /\ UNCHANGED <<responseOrder, paramOrder, heap, applied, fresh, sinceReset>>

-----------------------------------------------------------------------------
(* Inputs *)

Str_OK == <<"O","K">>
Str_listItems == <<"l","i","s","t","I","t","e","m","s">>

StringType(s) == [typeof |-> "string", value |-> s]
ClassType(name) == [typeof |-> "function", name |-> name]

\* The caller's content objects (the `content` option of ApiResponse).
ContentRefs == { "c1", "c2" }

InitialHeap ==
    [ c \in ContentRefs |->
        IF c = "c1" THEN (JSON :> [schema |-> [type |-> "object"]])
        ELSE ("text/plain" :> [schema |-> [type |-> "string"]]) ]

ResponseOptions(status, description, type, example, content) ==
    [ status |-> status, description |-> description, type |-> type, example |-> example,
      headers |-> undefined, content |-> content ]

ParamOptions(name, required, type, enum) ==
    [ name |-> name, description |-> undefined, required |-> required, type |-> type,
      example |-> undefined, enum |-> enum, deprecated |-> undefined ]

\* Options that differ in status (resp. name) only: the ordering of entries.
PlainResponses ==
    { ResponseOptions(st, undefined, undefined, undefined, undefined) : st \in {200, 404} }

PlainParams ==
    { ParamOptions(n, undefined, undefined, undefined) : n \in {"userId", "groupId"} }

\* Options that share a status code and differ in their description.
DuplicateResponses ==
    { ResponseOptions(200, Some(Str_OK), undefined, undefined, undefined),
      ResponseOptions(200, Some(<<"F","o","u","n","d">>), undefined, undefined, undefined),
      ResponseOptions(404, undefined, undefined, undefined, undefined) }

\* Options that exercise every branch of generateResponses.
RichResponses ==
    { ResponseOptions(200, Some(Str_OK), Some(StringType("object")), Some("ex1"), undefined),
      ResponseOptions(200, undefined, undefined, Some("ex2"), Some("c1")),
      ResponseOptions(404, Some(<<>>), Some(ClassType(<<"U","s","e","r">>)), undefined, Some("c2")),
      ResponseOptions(404, undefined, undefined, undefined, undefined) }

RichParams ==
    { ParamOptions("userId", Some(FALSE), Some(StringType("integer")), Some(<<"1", "2">>)) }

FullOperation ==
    [ summary |-> "Get user by ID", description |-> Some("d"), tags |-> Some(<<"users">>),
      operationId |-> Some("getUser"), deprecated |-> Some(TRUE) ]

MinimalOperation ==
    [ summary |-> "Other", description |-> undefined, tags |-> undefined,
      operationId |-> undefined, deprecated |-> undefined ]

BodyMetadata ==
    { [ description |-> Some("body"), type |-> Some(StringType("object")),
        required |-> Some(TRUE), example |-> undefined ],
      [ description |-> undefined, type |-> undefined,
        required |-> undefined, example |-> undefined ] }

ServersConfig ==
    [ info |-> [title |-> "User API", version |-> "1.0.0"],
      servers |-> << [url |-> "https://api.example.com"] >>,
      tags |-> << [name |-> "users"] >> ]

MinimalConfig == [ info |-> [title |-> "User API", version |-> "1.0.0"] ]

\* The calls of generateSpec: a configuration and a handler list.
GenerateCalls ==
    { [config |-> MinimalConfig, handlers |-> <<>>],
      [config |-> ServersConfig, handlers |-> <<"h1">>],
      [config |-> MinimalConfig, handlers |-> <<"h1", "h2">>],
      [config |-> ServersConfig, handlers |-> <<"h2", "h1">>],
      [config |-> MinimalConfig, handlers |-> <<"h3", "h1">>],
      [config |-> ServersConfig, handlers |-> <<"h1", "h2", "h3">>] }

\* Entries handed to MetadataManager.add* directly, with any order value.
ManagerEntries == { [name |-> n, order |-> o] : n \in {"a", "b"}, o \in 0..(MaxOrder - 1) }

\* Options of every shape: descriptions missing or empty, type references that
\* are unknown strings, empty, classes or neither string nor function, custom
\* content without 'application/json', names that repeat.
ShapeResponses ==
    { ResponseOptions(200, undefined, Some(StringType("uuid")), undefined, undefined),
      ResponseOptions(200, Some(<<>>), Some([typeof |-> "object"]), Some("ex1"), undefined),
      ResponseOptions(404, undefined, Some(StringType("")), Some("ex2"), Some("c2")),
      ResponseOptions(404, undefined, Some(StringType("")), Some("ex3"), undefined),
      ResponseOptions(404, undefined, Some(ClassType(<<"U","s","e","r">>)), Some("ex4"), Some("c2")),
      ResponseOptions(200, Some(Str_OK), Some(StringType("object")), Some("ex5"), Some("c1")) }

ShapeParams ==
    { ParamOptions("userId", undefined, undefined, undefined),
      ParamOptions("userId", Some(TRUE), Some(StringType("uuid")), undefined),
      [ name |-> "groupId", description |-> Some(<<"i","d">>), required |-> Some(FALSE),
        type |-> Some(ClassType(<<"U","s","e","r">>)), example |-> Some("g1"),
        enum |-> Some(<<"g1", "g2">>), deprecated |-> Some(TRUE) ] }

FullConfig ==
    [ info |-> [title |-> "User API", version |-> "1.0.0"],
      servers |-> << [url |-> "https://api.example.com"] >>,
      security |-> << [apiKey |-> <<>>] >>,
      tags |-> << [name |-> "users"] >>,
      externalDocs |-> [url |-> "https://example.com/docs"] ]

PartialConfig ==
    [ info |-> [title |-> "Other API", version |-> "2.0.0"],
      servers |-> <<>>,
      externalDocs |-> [url |-> "https://example.com/docs"] ]

\* Calls of generateSpec with lists that are empty, repeat a handler, or hold
\* handlers without metadata.
ShapeCalls ==
    { [config |-> MinimalConfig, handlers |-> <<>>],
      [config |-> FullConfig, handlers |-> <<"h1">>],
      [config |-> PartialConfig, handlers |-> <<"h1", "h1">>],
      [config |-> FullConfig, handlers |-> <<"h2", "h1", "h3">>],
      [config |-> PartialConfig, handlers |-> <<"h3", "h2">>] }

\* Type references: the six known strings, strings that are not known, and
\* classes with and without a name.
TypeRefs ==
    { StringType(s) : s \in { "string", "number", "integer", "boolean", "array", "object",
                              "uuid", "String", "date-time" } }
    \cup { ClassType(<<"U","s","e","r">>), ClassType(<<>>) }

\* A parameter of each type, and of no type, with and without enum values.
TypedParams ==
    { ParamOptions("status", undefined, type, enum) :
        type \in { undefined } \cup { Some(t) : t \in TypeRefs },
        enum \in { undefined, Some(<<"b", "a">>) } }

\* A response of each type.
TypedResponses ==
    { ResponseOptions(200, undefined, Some(t), undefined, undefined) : t \in TypeRefs }

\* Declared names of handlers (the property key of a decorated method): a first
\* word, a second word or none, and the suffix Handler or none.
NameHeads ==
    { <<"g","e","t">>,
      <<"c","r","e","a","t","e">>,
      <<"u","p","d","a","t","e">>,
      <<"r","e","m","o","v","e">>,
      <<"p","a","t","c","h">>,
      <<"f","e","t","c","h">>,
      <<"L","i","s","t">>,
      <<"P","O","S","T">>,
      <<"t","a","r","g","e","t">>,
      <<"i","n","p","u","t">>,
      <<"f","i","n","d">>,
      <<"d","e","l","e","t","e">> }

NameMiddles ==
    { <<>>,
      <<"U","s","e","r">>,
      <<"L","i","s","t">>,
      <<"P","o","s","t">>,
      <<"P","u","t">>,
      <<"I","t","e","m","s">>,
      <<"H","a","n","d","l","e","r">> }

NameTails == { <<>>, <<"H","a","n","d","l","e","r">> }

Names == { head \o middle \o tail : head \in NameHeads, middle \in NameMiddles, tail \in NameTails }

\* The names a second handler is declared with.
SharedNames ==
    { <<"u","p","d","a","t","e","P","o","s","t">>,
      <<"c","r","e","a","t","e","L","i","s","t","H","a","n","d","l","e","r">>,
      <<"L","i","s","t","I","t","e","m","s","H","a","n","d","l","e","r">> }

-----------------------------------------------------------------------------
(* Specifications *)

Init ==
    /\ store = [h \in Handlers |-> EmptyObject]
    /\ responseOrder = 0
    /\ paramOrder = 0
    /\ heap = InitialHeap
    /\ document = undefined
    /\ applied = [h \in Handlers |-> [k \in CollectionKeys |-> <<>>]]
    /\ fresh = [h \in Handlers |-> [k \in CollectionKeys |-> 0]]
    /\ sinceReset = [k \in CollectionKeys |-> 0]
    /\ last = Did("init", "none", undefined, undefined)
    /\ visited = <<>>

\* The model is bounded where an operation is offered, not in the operation.
MayAdd == TotalEntries < MaxEntries

\* The decorators with their counters.
Next ==
    \/ \E h \in {"h1", "h2"}, o \in PlainResponses :
         MayAdd /\ responseOrder < MaxOrder /\ ApiResponse(h, o)
    \/ \E h \in {"h1", "h2"}, o \in PlainParams :
         MayAdd /\ paramOrder < MaxOrder /\ ApiParam(h, o)
    \/ resetResponseOrder
    \/ resetParamOrder
    \/ \E h \in {"h1", "h2"} : clearMetadata(h)

Spec == Init /\ [][Next]_vars

\* MetadataManager called directly.
NextManager ==
    \/ \E k \in CollectionKeys, m \in ManagerEntries : MayAdd /\ ManagerAdd(k, "h1", m)
    \/ \E m \in ManagerEntries : MayAdd /\ ManagerAdd(METADATA_KEYS.API_RESPONSES, "h2", m)
    \/ \E h \in {"h1", "h2"} : clearMetadata(h)

SpecManager == Init /\ [][NextManager]_vars

\* The singular kinds: operation and body.
NextSingular ==
    \/ \E h \in {"h1", "h2"}, pk \in {undefined, Some(Str_listItems)},
          o \in {FullOperation, MinimalOperation} : ApiOperation(h, pk, o)
    \/ \E h \in {"h1", "h2"}, m \in BodyMetadata : ManagerSetBody(h, m)
    \/ \E h \in {"h1", "h2"} : clearMetadata(h)

SpecSingular == Init /\ [][NextSingular]_vars

\* Annotation followed by generation.  A generation directly after a generation
\* is not offered: every store and heap it would start from is also reached by
\* re-applying an annotation in between, so no state is lost.
NextGenerate ==
    \/ \E h \in Handlers : ApiOperation(h, undefined, FullOperation)
    \/ ApiOperation("h1", undefined, MinimalOperation)
    \/ \E o \in RichResponses : MayAdd /\ responseOrder < MaxOrder /\ ApiResponse("h1", o)
    \/ \E o \in PlainResponses : MayAdd /\ responseOrder < MaxOrder /\ ApiResponse("h2", o)
    \/ \E o \in RichParams : MayAdd /\ paramOrder < MaxOrder /\ ApiParam("h1", o)
    \/ \E call \in GenerateCalls :
         last.op # "generateSpec" /\ generateSpec(call.config, call.handlers)

SpecGenerate == Init /\ [][NextGenerate]_vars

\* Metadata of every shape, and generation over lists of every shape.
NextShapes ==
    \/ \E o \in {FullOperation, MinimalOperation} : ApiOperation("h1", undefined, o)
    \/ getOperation(store, "h3") = undefined /\ ApiOperation("h3", undefined, MinimalOperation)
    \/ \E o \in ShapeResponses : MayAdd /\ responseOrder < MaxOrder /\ ApiResponse("h1", o)
    \/ \E o \in ShapeParams : MayAdd /\ paramOrder < MaxOrder /\ ApiParam("h1", o)
    \/ \E call \in ShapeCalls :
         last.op # "generateSpec" /\ generateSpec(call.config, call.handlers)

SpecShapes == Init /\ [][NextShapes]_vars

\* One handler with one parameter and one response, of every type.
NextTypes ==
    \/ \E o \in {FullOperation, MinimalOperation} : ApiOperation("h1", undefined, o)
    \/ \E o \in TypedParams : getParams(store, "h1") = <<>> /\ ApiParam("h1", o)
    \/ \E o \in TypedResponses : getResponses(store, "h1") = <<>> /\ ApiResponse("h1", o)
    \/ last.op # "generateSpec" /\ generateSpec(MinimalConfig, <<"h1">>)

SpecTypes == Init /\ [][NextTypes]_vars

\* Every kind of metadata on one handler, next to a handler with some kinds and
\* a handler that is never annotated.
NextStore ==
    \/ \E k \in CollectionKeys :
         /\ Len(OrEmpty(ReflectGetMetadata(store, k, "h1"))) < MaxPerKind
         /\ ManagerAdd(k, "h1", [name |-> "a", order |-> 0])
    \/ Len(getResponses(store, "h2")) < MaxPerKind
         /\ ManagerAdd(METADATA_KEYS.API_RESPONSES, "h2", [name |-> "b", order |-> 0])
    \/ \E h \in {"h1", "h2"} : ApiOperation(h, undefined, MinimalOperation)
    \/ \E m \in BodyMetadata : ManagerSetBody("h1", m)
    \/ \E h \in {"h1", "h2"} : clearMetadata(h)

SpecStore == Init /\ [][NextStore]_vars

\* Handlers declared under many names, each annotated once, and generated.
NextNames ==
    \/ \E n \in Names :
         getOperation(store, "h1") = undefined /\ ApiOperation("h1", Some(n), MinimalOperation)
    \/ \E n \in SharedNames :
         getOperation(store, "h2") = undefined /\ ApiOperation("h2", Some(n), MinimalOperation)
    \/ \E o \in RichParams : MayAdd /\ paramOrder < MaxOrder /\ ApiParam("h1", o)
    \/ MayAdd /\ responseOrder < MaxOrder
         /\ ApiResponse("h1", ResponseOptions(404, undefined, undefined, undefined, undefined))
    \/ \E hs \in { <<"h1">>, <<"h1", "h2">> } :
         last.op # "generateSpec" /\ generateSpec(MinimalConfig, hs)

SpecNames == Init /\ [][NextNames]_vars

\* One handler with responses of a repeated status, applied around resets of
\* the counter and around applications to, and clears of, another handler.
NextDuplicates ==
    \/ getOperation(store, "h1") = undefined /\ ApiOperation("h1", undefined, MinimalOperation)
    \/ \E o \in DuplicateResponses :
         MayAdd /\ responseOrder < MaxOrder /\ ApiResponse("h1", o)
    \/ MayAdd /\ responseOrder < MaxOrder
         /\ ApiResponse("h2", ResponseOptions(404, undefined, undefined, undefined, undefined))
    \/ resetResponseOrder
    \/ clearMetadata("h2")
    \/ last.op # "generateSpec" /\ generateSpec(MinimalConfig, <<"h1">>)

SpecDuplicates == Init /\ [][NextDuplicates]_vars

\* Every kind of metadata on one handler, which may be cleared, an operation
\* and a response on a second, and generation over the two.
NextKinds ==
    \/ \E h \in {"h1", "h2"} :
         getOperation(store, h) = undefined /\ ApiOperation(h, undefined, MinimalOperation)
    \/ \E h \in {"h1", "h2"} :
         /\ getResponses(store, h) = <<>> /\ responseOrder < MaxOrder
         /\ ApiResponse(h, ResponseOptions(404, undefined, undefined, undefined, undefined))
    \/ /\ getParams(store, "h1") = <<>> /\ paramOrder < MaxOrder
       /\ ApiParam("h1", ParamOptions("userId", undefined, undefined, undefined))
    \/ \E k \in { METADATA_KEYS.API_QUERIES, METADATA_KEYS.API_SECURITY, METADATA_KEYS.API_TAGS } :
         /\ ReflectGetMetadata(store, k, "h1") = undefined
         /\ ManagerAdd(k, "h1", [name |-> "a", order |-> 0])
    \/ \E b \in BodyMetadata :
         getBody(store, "h1") = undefined /\ b.required # undefined /\ ManagerSetBody("h1", b)
    \/ hasMetadata(store, "h1") /\ clearMetadata("h1")
    \/ last.op # "generateSpec" /\ generateSpec(MinimalConfig, <<"h1", "h2">>)

SpecKinds == Init /\ [][NextKinds]_vars

-----------------------------------------------------------------------------
(* Properties of the decorators and their counters (Spec) *)

RESPONSES == METADATA_KEYS.API_RESPONSES
PARAMS == METADATA_KEYS.API_PARAMS
DecoratorKeys == { RESPONSES, PARAMS }

\* What getApiResponses / getApiParams return.
Listed(h, key) == IF key = RESPONSES THEN getApiResponses(h) ELSE getApiParams(h)

\* The identifying field of an entry: a response's status, a parameter's name.
Ident(key, e) == IF key = RESPONSES THEN e.status ELSE e.name
Idents(key) == IF key = RESPONSES THEN {200, 404, 500} ELSE {"userId", "groupId", "other"}

\* getApiResponse / getApiParam
Lookup(h, key, id) == IF key = RESPONSES THEN getApiResponse(h, id) ELSE getApiParam(h, id)

NonDecreasing(s) == \A i, j \in 1..Len(s) : i < j => s[i].order <= s[j].order
StrictlyIncreasing(s) == \A i, j \in 1..Len(s) : i < j => s[i].order < s[j].order
OrdersOf(s) == { s[i].order : i \in 1..Len(s) }
WithOrder(s, o) == LET Has(e) == e.order = o IN SelectSeq(s, Has)

\* s is t sorted by order, entries of equal order kept in t's sequence.
StableSorted(s, t) ==
    /\ Len(s) = Len(t)
    /\ NonDecreasing(s)
    /\ \A o \in OrdersOf(s) \cup OrdersOf(t) : WithOrder(s, o) = WithOrder(t, o)

\* No reset of key's counter fell between the applications h retains.
NoResetBetween(h, key) == fresh[h][key] = Len(applied[h][key])

\* C1, as stated: after any sequence of ApiResponse / ApiParam applications, resets
\* and clears, every handler's list is its applications since its last clear in
\* application order, with strictly increasing order indices.
C1_AnySequence ==
    \A h \in Handlers, k \in DecoratorKeys :
        /\ Listed(h, k) = applied[h][k]
        /\ StrictlyIncreasing(Listed(h, k))

\* C1, amended: every handler's list holds exactly its applications since its last
\* clear, by non-decreasing order index and, for equal indices, in application
\* order; it is the application order with strictly increasing indices whenever
\* no reset of that kind's counter fell between those applications.
C1_OrderedByIndex ==
    \A h \in Handlers, k \in DecoratorKeys :
        /\ StableSorted(Listed(h, k), applied[h][k])
        /\ NoResetBetween(h, k) =>
              /\ Listed(h, k) = applied[h][k]
              /\ StrictlyIncreasing(Listed(h, k))

\* A handler holds two responses applied without a reset between, the first with
\* the larger status code.
C1_Witness ==
    \E h \in Handlers :
        /\ Len(getApiResponses(h)) = 2
        /\ NoResetBetween(h, RESPONSES)
        /\ applied[h][RESPONSES][1].status > applied[h][RESPONSES][2].status

\* The index in t of the earliest entry with identifier id (0 when there is none).
EarliestIndex(key, t, id) ==
    IF \E i \in 1..Len(t) : Ident(key, t[i]) = id
    THEN CHOOSE i \in 1..Len(t) :
            /\ Ident(key, t[i]) = id
            /\ \A j \in 1..(i - 1) : Ident(key, t[j]) # id
    ELSE 0

\* The index in t of the entry with identifier id that has the lowest order
\* index, the earliest of them when several have it (0 when there is none).
LowestIndex(key, t, id) ==
    IF \E i \in 1..Len(t) : Ident(key, t[i]) = id
    THEN CHOOSE i \in 1..Len(t) :
            /\ Ident(key, t[i]) = id
            /\ \A j \in 1..Len(t) :
                  (j # i /\ Ident(key, t[j]) = id) =>
                      \/ t[i].order < t[j].order
                      \/ (t[i].order = t[j].order /\ i < j)
    ELSE 0

At(t, i) == IF i = 0 THEN undefined ELSE Some(t[i])

\* C5, as stated: k applications make k entries, and the point lookup returns the
\* earliest-applied entry with that status (name), or undefined.
C5_EarliestApplied ==
    \A h \in Handlers, k \in DecoratorKeys :
        /\ Len(Listed(h, k)) = Len(applied[h][k])
        /\ \A id \in Idents(k) :
              Lookup(h, k, id) = At(applied[h][k], EarliestIndex(k, applied[h][k], id))

\* C5, amended: k applications make k entries, and the point lookup returns the
\* entry with that status (name) that has the lowest order index (the earliest
\* applied of those with that index), or undefined; that is the earliest-applied
\* entry whenever no reset of the counter fell between the handler's applications.
C5_LowestIndex ==
    \A h \in Handlers, k \in DecoratorKeys :
        /\ Len(Listed(h, k)) = Len(applied[h][k])
        /\ \A id \in Idents(k) :
              /\ Lookup(h, k, id) = At(applied[h][k], LowestIndex(k, applied[h][k], id))
              /\ NoResetBetween(h, k) =>
                    Lookup(h, k, id) = At(applied[h][k], EarliestIndex(k, applied[h][k], id))

\* A handler holds two responses with the same status, applied without a reset
\* between, and the lookup of that status returns the first.
C5_Witness ==
    \E h \in Handlers :
        /\ Len(applied[h][RESPONSES]) = 2
        /\ NoResetBetween(h, RESPONSES)
        /\ applied[h][RESPONSES][1].status = applied[h][RESPONSES][2].status
        /\ getApiResponse(h, applied[h][RESPONSES][1].status) = Some(applied[h][RESPONSES][1])
        /\ getApiResponse(h, 500) = undefined

\* The entries applied since the last reset of key's counter, as <<handler, index>>.
FreshEntries(key) ==
    { <<h, i>> \in Handlers \X (1..MaxEntries) :
        /\ i <= Len(applied[h][key])
        /\ i > Len(applied[h][key]) - fresh[h][key] }

Newest(h, key) == applied[h][key][Len(applied[h][key])]

\* C7: the n-th application of a kind since the last reset of its counter gets
\* order n-1 whichever handler it targets, so that no two entries of a kind
\* applied between two resets share an order value, anywhere in the store.
C7_ProcessWideCounter ==
    /\ last.op = "ApiResponse" =>
          Newest(last.target, RESPONSES).order = sinceReset[RESPONSES] - 1
    /\ last.op = "ApiParam" =>
          Newest(last.target, PARAMS).order = sinceReset[PARAMS] - 1
    /\ \A k \in DecoratorKeys : \A x, y \in FreshEntries(k) :
          x # y => applied[x[1]][k][x[2]].order # applied[y[1]][k][y[2]].order

\* A handler's only response, applied second after the reset, has index 1: its
\* indices do not start at 0.
C7_Witness ==
    /\ last.op = "ApiResponse"
    /\ sinceReset[RESPONSES] = 2
    /\ Len(getApiResponses(last.target)) = 1
    /\ getApiResponses(last.target)[1].order = 1

\* C8: applying ApiParam never changes the response counter and applying
\* ApiResponse never changes the param counter; each counter is the number of
\* applications of its own kind since its own last reset.
C8_IndependentCounters ==
    [][ /\ last'.op = "ApiParam" => responseOrder' = responseOrder
        /\ last'.op = "ApiResponse" => paramOrder' = paramOrder
        /\ responseOrder' = sinceReset'[RESPONSES]
        /\ paramOrder' = sinceReset'[PARAMS] ]_vars

\* ApiParam has just been applied while the two counters differ.
C8_Witness ==
    /\ last.op = "ApiParam"
    /\ responseOrder = 2
    /\ paramOrder = 1

\* C9: a reset sets its own counter to 0 and changes neither the store nor the
\* other counter, and the next application of that kind gets order 0.
C9_ResetOnlyCounter ==
    [][ /\ last'.op = "resetResponseOrder" =>
              responseOrder' = 0 /\ store' = store /\ paramOrder' = paramOrder
        /\ last'.op = "resetParamOrder" =>
              paramOrder' = 0 /\ store' = store /\ responseOrder' = responseOrder
        /\ (last.op = "resetResponseOrder" /\ last'.op = "ApiResponse") =>
              LET list == applied'[last'.target][RESPONSES] IN list[Len(list)].order = 0
        /\ (last.op = "resetParamOrder" /\ last'.op = "ApiParam") =>
              LET list == applied'[last'.target][PARAMS] IN list[Len(list)].order = 0 ]_vars

\* A response is applied right after a reset, to a handler that already holds one.
C9_Witness ==
    /\ last.op = "ApiResponse"
    /\ sinceReset[RESPONSES] = 1
    /\ Len(getApiResponses(last.target)) = 2
    /\ paramOrder > 0

\* The entries of a list, as a set.
Entries(list) == { list[i] : i \in 1..Len(list) }

\* C29: clearMetadata leaves both counters as they are, so the first
\* ApiResponse / ApiParam after a clear, of the cleared handler or of another,
\* gets the value its counter had before the clear; a cleared handler that is
\* annotated again lists the new entry alone, and every list holds the entries
\* applied since its handler's last clear and no other.
C29_ClearKeepsCounters ==
    [][ /\ last'.op = "clearMetadata" =>
              /\ responseOrder' = responseOrder
              /\ paramOrder' = paramOrder
        /\ (last.op = "clearMetadata" /\ last'.op = "ApiResponse") =>
              /\ ResponseMetadata(last'.input, responseOrder) \in
                    Entries(getResponses(store', last'.target))
              /\ responseOrder' = responseOrder + 1
              /\ last'.target = last.target =>
                    getResponses(store', last'.target) =
                        << ResponseMetadata(last'.input, responseOrder) >>
        /\ (last.op = "clearMetadata" /\ last'.op = "ApiParam") =>
              /\ ParamMetadata(last'.input, paramOrder) \in
                    Entries(getParams(store', last'.target))
              /\ paramOrder' = paramOrder + 1
              /\ last'.target = last.target =>
                    getParams(store', last'.target) =
                        << ParamMetadata(last'.input, paramOrder) >>
        /\ \A h \in Handlers, k \in DecoratorKeys :
              /\ Entries(Listed(h, k))' = Entries(applied[h][k])'
              /\ Len(Listed(h, k))' = Len(applied[h][k])' ]_vars

\* Two responses were applied since the last reset; the one with order 0 was
\* cleared before the other was applied, and that one, the last application,
\* has order 1 and is alone in the store.
C29_Witness ==
    /\ last.op = "ApiResponse"
    /\ sinceReset[RESPONSES] = 2
    /\ getResponses(store, last.target) = << ResponseMetadata(last.input, 1) >>
    /\ \A h \in Handlers \ {last.target} : getResponses(store, h) = <<>>

-----------------------------------------------------------------------------
(* Properties of MetadataManager called directly (SpecManager) *)

Collection(h, key) ==
    CASE key = METADATA_KEYS.API_RESPONSES -> getResponses(store, h)
      [] key = METADATA_KEYS.API_PARAMS    -> getParams(store, h)
      [] key = METADATA_KEYS.API_QUERIES   -> getQueries(store, h)
      [] key = METADATA_KEYS.API_SECURITY  -> getSecurity(store, h)
      [] key = METADATA_KEYS.API_TAGS      -> getTags(store, h)

\* C10: whatever order values the added entries carry, each collection holds
\* exactly the entries added since the handler's last clear, by non-decreasing
\* order value, entries of equal order value in the order they were added.
C10_SortedPermutation ==
    \A h \in Handlers, k \in CollectionKeys : StableSorted(Collection(h, k), applied[h][k])

\* A collection whose two entries were added with equal order values, and one
\* whose two entries were added in decreasing order and are held swapped.
C10_Witness ==
    /\ \E h \in Handlers, k \in CollectionKeys :
          /\ Len(applied[h][k]) = 2
          /\ applied[h][k][1].order > applied[h][k][2].order
          /\ Collection(h, k) = <<applied[h][k][2], applied[h][k][1]>>
    /\ last.op = "add"

\* Two entries of equal order value and different names, held as they were added.
C10_TieWitness ==
    \E h \in Handlers, k \in CollectionKeys :
        /\ Len(applied[h][k]) = 2
        /\ applied[h][k][1].order = applied[h][k][2].order
        /\ applied[h][k][1].name # applied[h][k][2].name
        /\ Collection(h, k) = applied[h][k]

-----------------------------------------------------------------------------
(* Properties of the singular kinds (SpecSingular) *)

OptionalOperationFields == { "description", "tags", "operationId", "deprecated" }

\* The record an ApiOperation call is to leave behind.
Expected(target, input) ==
    [ functionName |-> IF input.propertyKey # undefined THEN Get(input.propertyKey)
                       ELSE HandlerName(target),
      summary      |-> input.options.summary,
      description  |-> input.options.description,
      tags         |-> input.options.tags,
      operationId  |-> input.options.operationId,
      deprecated   |-> input.options.deprecated ]

\* C6: after ApiOperation, getApiOperation returns exactly the record built from
\* that call's options, so an optional field the options leave out is undefined
\* whatever the earlier record held; after setBody, getBody returns that record.
C6_Overwrite ==
    /\ last.op = "ApiOperation" =>
          /\ getApiOperation(last.target) = Some(Expected(last.target, last.input))
          /\ \A f \in OptionalOperationFields :
                last.input.options[f] = undefined =>
                    Get(getApiOperation(last.target))[f] = undefined
    /\ last.op = "setBody" => getBody(store, last.target) = Some(last.input)

\* ApiOperation with summary-only options has just replaced a record that had
\* every optional field.
C6_Witness ==
    /\ last.op = "ApiOperation"
    /\ last.before # undefined
    /\ \A f \in OptionalOperationFields : Get(last.before)[f] # undefined
    /\ last.input.options = MinimalOperation

-----------------------------------------------------------------------------
(* Properties of generation (SpecGenerate) *)

Generated == document # undefined
Doc == Get(document)
Listed_handlers == last.input.handlers

\* The places of the handler list whose handler carries OperationMetadata.
WithOperation == { i \in 1..Len(Listed_handlers) : getOperation(store, Listed_handlers[i]) # undefined }

FunctionNameAt(i) == Get(getOperation(store, Listed_handlers[i])).functionName
PathAt(i) == generatePathFromFunction(FunctionNameAt(i))
MethodAt(i) == determineHttpMethod(FunctionNameAt(i))

\* C2: the keys of paths are exactly the paths inferred from the listed handlers
\* that carry OperationMetadata, and the methods under a path exactly theirs.
C2_PathsOfOperations ==
    Generated =>
        /\ DOMAIN Doc.paths = { PathAt(i) : i \in WithOperation }
        /\ \A p \in DOMAIN Doc.paths :
              DOMAIN Doc.paths[p] = { MethodAt(i) : i \in { j \in WithOperation : PathAt(j) = p } }

\* A document generated from a list with a handler that carries an operation and
\* a handler that carries responses but no operation.
C2_Witness ==
    /\ Generated
    /\ WithOperation # {}
    /\ \E i \in 1..Len(Listed_handlers) :
          /\ i \notin WithOperation
          /\ Len(getResponses(store, Listed_handlers[i])) > 0
          /\ hasMetadata(store, Listed_handlers[i])
    /\ Cardinality(DOMAIN Doc.paths) = 1

\* The operation generateSpec builds for a handler.
OperationOf(h) == generateOperation(getHandlerMetadata(store, h), heap).operation

\* C3: the operation at a path and method is the one built from the last listed
\* handler that infers that pair, whatever else the list holds.
C3_LastHandlerWins ==
    Generated =>
        \A p \in DOMAIN Doc.paths : \A m \in DOMAIN Doc.paths[p] :
            LET at == { i \in WithOperation : PathAt(i) = p /\ MethodAt(i) = m }
                lastAt == CHOOSE i \in at : \A j \in at : j <= i
            IN  Doc.paths[p][m] = OperationOf(Listed_handlers[lastAt])

\* Two listed handlers with different operations infer the same path and method,
\* and a third infers another pair.
C3_Witness ==
    /\ Generated
    /\ \E i, j \in WithOperation :
          /\ i < j
          /\ PathAt(i) = PathAt(j) /\ MethodAt(i) = MethodAt(j)
          /\ OperationOf(Listed_handlers[i]) # OperationOf(Listed_handlers[j])
    /\ \E k \in WithOperation : MethodAt(k) = "post"
    /\ Cardinality(DOMAIN Doc.paths) = 2

\* A handler's metadata with each response's content object read through the heap.
Resolved(st, hp, h) ==
    [ k \in DOMAIN st[h] |->
        IF k = METADATA_KEYS.API_RESPONSES
        THEN [ i \in 1..Len(st[h][k]) |->
                 [ st[h][k][i] EXCEPT
                     !.content = IF @ = undefined THEN undefined ELSE Some(hp[Get(@)]) ] ]
        ELSE st[h][k] ]

\* C4: generateSpec leaves every handler's metadata records, the content and
\* example values they hold included, and both counters as they were.
C4_ReadOnly ==
    [][ last'.op = "generateSpec" =>
            /\ responseOrder' = responseOrder
            /\ paramOrder' = paramOrder
            /\ \A h \in Handlers : Resolved(store', heap', h) = Resolved(store, heap, h) ]_vars

\* The listed handler whose operation the document holds at path p and method m.
SourceOf(p, m) ==
    LET at == { i \in WithOperation : PathAt(i) = p /\ MethodAt(i) = m }
    IN  Listed_handlers[CHOOSE i \in at : \A j \in at : j <= i]

\* The operations of the document, as <<path, method>>.
Operations == { <<p, m>> \in (DOMAIN Doc.paths) \X {"get", "post", "put", "delete", "patch"} :
                  m \in DOMAIN Doc.paths[p] }

\* The decimal string of a status code.
Decimal(status) ==
    CASE status = 200 -> <<"2","0","0">>
      [] status = 404 -> <<"4","0","4">>

DefaultResponses ==
    (<<"2","0","0">> :>
       [description |-> <<"S","u","c","c","e","s","s","f","u","l"," ",
                          "r","e","s","p","o","n","s","e">>])

\* C11: a handler with no ResponseMetadata gets exactly the synthetic 200
\* response; a handler with entries gets no synthetic one, every key of its
\* responses map is the decimal string of the status of one of its entries.
C11_DefaultOnlyWhenEmpty ==
    Generated =>
        \A op \in Operations :
            LET entries == getResponses(store, SourceOf(op[1], op[2]))
                responses == Doc.paths[op[1]][op[2]].responses
            IN  /\ entries = <<>> => responses = DefaultResponses
                /\ entries # <<>> =>
                      DOMAIN responses \subseteq
                          { Decimal(entries[i].status) : i \in 1..Len(entries) }

\* A document with the operation of a handler without responses, which has the
\* synthetic 200 response, and the operation of a handler whose only response is
\* a 404, which has no "200" key.
C11_Witness ==
    /\ Generated
    /\ \E op \in Operations :
          /\ getResponses(store, SourceOf(op[1], op[2])) = <<>>
          /\ Doc.paths[op[1]][op[2]].responses = DefaultResponses
    /\ \E op \in Operations :
          /\ Len(getResponses(store, SourceOf(op[1], op[2]))) = 1
          /\ DOMAIN Doc.paths[op[1]][op[2]].responses = { <<"4","0","4">> }

\* What the claim says of the response generated for entry e.
Describes(response, e) ==
    /\ response.description # <<>>
    /\ response.description =
          IF e.description # undefined /\ Get(e.description) # <<>>
          THEN Get(e.description)
          ELSE <<"R","e","s","p","o","n","s","e"," ">> \o Decimal(e.status)
    /\ (e.type # undefined /\ e.content = undefined) =>
          /\ "content" \in DOMAIN response
          /\ response.content.own[JSON].schema = generateSchemaFromType(Get(e.type))
    /\ (e.type = undefined /\ e.content = undefined) => "content" \notin DOMAIN response

\* C20, as stated: every ResponseMetadata entry of a handler has its status as
\* a key of the responses map, and the response under that key has the entry's
\* description (or 'Response <status>'), the schema of the entry's type when it
\* has a type and no custom content, and no content when it has neither.
C20_EveryEntry ==
    Generated =>
        \A op \in Operations :
            LET entries == getResponses(store, SourceOf(op[1], op[2]))
                responses == Doc.paths[op[1]][op[2]].responses
            IN  \A i \in 1..Len(entries) :
                    /\ Decimal(entries[i].status) \in DOMAIN responses
                    /\ Describes(responses[Decimal(entries[i].status)], entries[i])

\* C20, amended: every entry's status is a key of the responses map, and the
\* response under a key is described by the last entry, in stored order, that
\* has that status.
C20_LastEntryOfStatus ==
    Generated =>
        \A op \in Operations :
            LET entries == getResponses(store, SourceOf(op[1], op[2]))
                responses == Doc.paths[op[1]][op[2]].responses
            IN  \A i \in 1..Len(entries) :
                    /\ Decimal(entries[i].status) \in DOMAIN responses
                    /\ (\A j \in (i + 1)..Len(entries) : entries[j].status # entries[i].status)
                         => Describes(responses[Decimal(entries[i].status)], entries[i])

\* An operation whose handler has two entries of one status with different
\* descriptions, the last typed and without custom content: the response has
\* the last entry's description and the schema of its type.
C20_Witness ==
    /\ Generated
    /\ \E op \in Operations :
          LET entries == getResponses(store, SourceOf(op[1], op[2]))
              responses == Doc.paths[op[1]][op[2]].responses
          IN  /\ Len(entries) = 2
              /\ entries[1].status = entries[2].status
              /\ entries[1].description # entries[2].description
              /\ entries[2].type # undefined /\ entries[2].content = undefined
              /\ responses[Decimal(entries[2].status)].description = Str_OK
              /\ responses[Decimal(entries[2].status)].content.own[JSON].schema.type = "object"

\* The document with every content object in the place of its reference.
Inlined(spec, hp) ==
    LET response(r) == IF "content" \in DOMAIN r /\ "ref" \in DOMAIN r.content
                       THEN [r EXCEPT !.content = [own |-> hp[r.content.ref]]]
                       ELSE r
        operation(o) == [o EXCEPT !.responses = [s \in DOMAIN o.responses |->
                                                    response(o.responses[s])]]
    IN  [spec EXCEPT !.paths = [p \in DOMAIN spec.paths |->
                                  [method \in DOMAIN spec.paths[p] |->
                                      operation(spec.paths[p][method])]]]

\* C25: parsing the JSON text of a generated document gives a document with the
\* same keys at every level, the same nesting and the same arrays in the same
\* order.
C25_RoundTrip ==
    Generated => JSONparse(JSONstringify(Doc, heap)) = Inlined(Doc, heap)

-----------------------------------------------------------------------------
(* Properties of the inference of path and method (SpecNames) *)

\* c and d are the same letter, whatever the case of c (d is lower-case).
SameLetter(c, d) ==
    c = d \/ \E i \in 1..Len(UpperCase) : UpperCase[i] = c /\ LowerCase[i] = d

\* The lower-case word occurs in the name, case-insensitively.
Occurs(word, name) ==
    \E i \in 1..(Len(name) - Len(word) + 1) :
        \A k \in 1..Len(word) : SameLetter(name[i + k - 1], word[k])

\* The rules of the claim, in its order.
Rules ==
    << [ words |-> { <<"g","e","t">>, <<"l","i","s","t">>, <<"f","i","n","d">> },
         method |-> "get" ],
       [ words |-> { <<"p","o","s","t">>, <<"c","r","e","a","t","e">> },
         method |-> "post" ],
       [ words |-> { <<"p","u","t">>, <<"u","p","d","a","t","e">> },
         method |-> "put" ],
       [ words |-> { <<"d","e","l","e","t","e">>, <<"r","e","m","o","v","e">> },
         method |-> "delete" ],
       [ words |-> { <<"p","a","t","c","h">> }, method |-> "patch" ] >>

Matching(name) == { r \in 1..Len(Rules) : \E w \in Rules[r].words : Occurs(w, name) }

FirstRule(name) ==
    IF Matching(name) = {} THEN "get"
    ELSE Rules[CHOOSE r \in Matching(name) : \A q \in Matching(name) : r <= q].method

\* The names of the listed handlers that carry OperationMetadata.
ListedNames == { FunctionNameAt(i) : i \in WithOperation }

Stem(name) ==
    IF Len(name) >= 7 /\ SubSeq(name, Len(name) - 6, Len(name)) = <<"H","a","n","d","l","e","r">>
    THEN SubSeq(name, 1, Len(name) - 7)
    ELSE name

RECURSIVE Kebab(_)
Kebab(name) ==
    IF name = <<>> THEN <<>>
    ELSE LET c == name[Len(name)]
             capital == \E i \in 1..Len(UpperCase) : UpperCase[i] = c
             lower == IF capital
                      THEN LowerCase[CHOOSE i \in 1..Len(UpperCase) : UpperCase[i] = c]
                      ELSE c
         IN  Kebab(SubSeq(name, 1, Len(name) - 1)) \o (IF capital THEN <<"-", lower>> ELSE <<lower>>)

InferredPath(name) ==
    LET kebab == Kebab(Stem(name))
    IN  <<"/">> \o (IF kebab # <<>> /\ kebab[1] = "-" THEN SubSeq(kebab, 2, Len(kebab)) ELSE kebab)

\* C13: the operations of the document are exactly the (path, method) pairs
\* inferred from the names of the listed handlers that carry OperationMetadata,
\* whatever parameters and responses those handlers have; so two handlers of
\* one name share one pair.
C13_PathOfNameOnly ==
    Generated =>
        /\ Operations = { <<InferredPath(n), FirstRule(n)>> : n \in ListedNames }
        /\ InferredPath(<<"g","e","t","U","s","e","r","H","a","n","d","l","e","r">>) = <<"/","g","e","t","-","u","s","e","r">>
        /\ InferredPath(<<"c","r","e","a","t","e","U","s","e","r","H","a","n","d","l","e","r">>) = <<"/","c","r","e","a","t","e","-","u","s","e","r">>
        /\ InferredPath(<<"l","i","s","t","I","t","e","m","s","H","a","n","d","l","e","r">>) = <<"/","l","i","s","t","-","i","t","e","m","s">>

\* Two listed handlers declared with one name, which starts with a capital and
\* ends in Handler, one of them with a parameter: the document has one operation.
C13_Witness ==
    /\ Generated
    /\ Cardinality(WithOperation) = 2
    /\ ListedNames = { <<"L","i","s","t","I","t","e","m","s","H","a","n","d","l","e","r">> }
    /\ Len(getParams(store, "h1")) > 0
    /\ Operations = { << <<"/","l","i","s","t","-","i","t","e","m","s">>, "get" >> }

HttpMethods == { "get", "post", "put", "delete", "patch" }

\* A key that is the decimal string of a status code: digits only.
IsStatusKey(key) ==
    /\ key # <<>>
    /\ \A i \in 1..Len(key) : \E d \in 1..Len(Digits) : Digits[d] = key[i]

\* C23: in every document every path key starts with '/', every key of a path
\* item is one of get, post, put, delete, patch, and every operation has a
\* responses map that is not empty and whose keys are status codes as strings.
C23_DocumentShape ==
    Generated =>
        \A p \in DOMAIN Doc.paths :
            /\ p # <<>> /\ p[1] = "/"
            /\ DOMAIN Doc.paths[p] \subseteq HttpMethods
            /\ \A method \in DOMAIN Doc.paths[p] :
                  /\ "responses" \in DOMAIN Doc.paths[p][method]
                  /\ DOMAIN Doc.paths[p][method].responses # {}
                  /\ \A key \in DOMAIN Doc.paths[p][method].responses : IsStatusKey(key)

\* A document with a patch operation whose only response is a 404 and a post
\* operation with the default response.
C23_Witness ==
    /\ Generated
    /\ \E p \in DOMAIN Doc.paths :
          /\ DOMAIN Doc.paths[p] = { "patch" }
          /\ DOMAIN Doc.paths[p]["patch"].responses = { <<"4","0","4">> }
    /\ \E p \in DOMAIN Doc.paths :
          /\ "post" \in DOMAIN Doc.paths[p]
          /\ DOMAIN Doc.paths[p]["post"].responses = { <<"2","0","0">> }

-----------------------------------------------------------------------------
(* Properties of the store's reads and of clearMetadata (SpecStore) *)

\* The aggregate of a handler without metadata.
EmptyHandlerMetadata ==
    [ operation |-> undefined, responses |-> <<>>, params |-> <<>>, queries |-> <<>>,
      body |-> undefined, security |-> <<>>, tags |-> <<>> ]

\* C14: every read of the store is defined for every handler in every state;
\* a kind a handler has no metadata of reads as undefined (operation, body) or
\* as the empty list (the five collections), and a handler without any metadata
\* has the empty aggregate, hasMetadata false and no existing key.
C14_AbsentIsEmpty ==
    \A h \in Handlers :
        /\ DOMAIN getHandlerMetadata(store, h) =
              { "operation", "responses", "params", "queries", "body", "security", "tags" }
        /\ hasMetadata(store, h) \in BOOLEAN
        /\ Len(getExistingMetadataKeys(store, h)) \in 0..7
        /\ METADATA_KEYS.API_OPERATION \notin DOMAIN store[h] => getOperation(store, h) = undefined
        /\ METADATA_KEYS.API_BODY \notin DOMAIN store[h] => getBody(store, h) = undefined
        /\ \A k \in CollectionKeys : k \notin DOMAIN store[h] => Collection(h, k) = <<>>
        /\ store[h] = EmptyObject =>
              /\ getHandlerMetadata(store, h) = EmptyHandlerMetadata
              /\ ~hasMetadata(store, h)
              /\ getExistingMetadataKeys(store, h) = <<>>

\* One handler has all seven kinds, one has an operation and no body, and the
\* never-annotated third reads as empty.
C14_Witness ==
    /\ Len(getExistingMetadataKeys(store, "h1")) = 7
    /\ getOperation(store, "h2") # undefined
    /\ getBody(store, "h2") = undefined
    /\ getTags(store, "h2") = <<>>
    /\ getHandlerMetadata(store, "h3") = EmptyHandlerMetadata

\* C16: after clearMetadata(h), h has no metadata (hasMetadata false, no
\* existing key, the aggregate of a never-annotated handler) and every other
\* handler has the metadata it had.
C16_ClearsOneHandler ==
    [][ last'.op = "clearMetadata" =>
            /\ ~hasMetadata(store', last'.target)
            /\ getExistingMetadataKeys(store', last'.target) = <<>>
            /\ getHandlerMetadata(store', last'.target) = getHandlerMetadata(store', "h3")
            /\ getHandlerMetadata(store', last'.target) = EmptyHandlerMetadata
            /\ \A g \in Handlers \ {last'.target} :
                  /\ store'[g] = store[g]
                  /\ getHandlerMetadata(store', g) = getHandlerMetadata(store, g) ]_vars

\* A handler that had all seven kinds has just been cleared, and another
\* handler still has its metadata.
C16_Witness ==
    /\ last.op = "clearMetadata"
    /\ Len(Get(last.before)) = 7
    /\ ~hasMetadata(store, last.target)
    /\ \E g \in Handlers \ {last.target} : Len(getExistingMetadataKeys(store, g)) = 2

\* The kinds of metadata present for a handler: a defined operation or body, a
\* collection that is not empty.
KindsPresent(h) ==
    { k \in DOMAIN store[h] : k \in CollectionKeys => store[h][k] # <<>> }

\* C24: hasMetadata(h) is true exactly when at least one of the seven kinds is
\* present for h, which is exactly when getExistingMetadataKeys(h) is not
\* empty; that list names every kind present once, so its length is the number
\* of kinds present.
C24_HasMetadataAgrees ==
    \A h \in Handlers :
        /\ hasMetadata(store, h) <=> KindsPresent(h) # {}
        /\ hasMetadata(store, h) <=> getExistingMetadataKeys(store, h) # <<>>
        /\ { getExistingMetadataKeys(store, h)[i] :
                 i \in 1..Len(getExistingMetadataKeys(store, h)) } = KindsPresent(h)
        /\ Len(getExistingMetadataKeys(store, h)) = Cardinality(KindsPresent(h))

\* A handler whose only kind is tags next to one with two kinds, and a handler
\* with none.
C24_Witness ==
    /\ KindsPresent("h1") = { METADATA_KEYS.API_TAGS }
    /\ hasMetadata(store, "h1")
    /\ Len(getExistingMetadataKeys(store, "h2")) = 2
    /\ ~hasMetadata(store, "h3")

-----------------------------------------------------------------------------
(* Properties of generation over metadata of every shape (SpecShapes) *)

\* C15: every call of generateSpec returns a document, having called the
\* callback of its loop once for each place of the handler list, in list order,
\* whatever the configuration, the list and the stored metadata.
C15_VisitsEachOnce ==
    last.op = "generateSpec" =>
        /\ Generated
        /\ { "openapi", "info", "paths", "components" } \subseteq DOMAIN Doc
        /\ Len(visited) = Len(Listed_handlers)
        /\ \A i \in 1..Len(Listed_handlers) : visited[i] = Listed_handlers[i]

\* A document generated from a list of three handlers, the first without
\* metadata, the second with two parameters of one name, one of an unknown type
\* and one without type or description, and without responses.
C15_Witness ==
    /\ last.op = "generateSpec"
    /\ Generated
    /\ visited = <<"h2", "h1", "h3">>
    /\ ~hasMetadata(store, "h2")
    /\ getResponses(store, "h1") = <<>>
    /\ Len(getParams(store, "h1")) = 2
    /\ getParams(store, "h1")[1].name = getParams(store, "h1")[2].name
    /\ \E i \in 1..2 : getParams(store, "h1")[i].type = Some(StringType("uuid"))
    /\ \E i \in 1..2 : getParams(store, "h1")[i].description = undefined
    /\ Cardinality(DOMAIN Doc.paths) = 2

\* C17: the record ApiParam creates has in = 'path', has required equal to the
\* option when it is given (false included) and true when it is not, and has
\* its description, type, example, enum and deprecated as the options have
\* them, undefined when they are not supplied.
C17_ParamDefaults ==
    /\ \A h \in Handlers : \A i \in 1..Len(getApiParams(h)) : getApiParams(h)[i].in = "path"
    /\ last.op = "ApiParam" =>
          LET created == Newest(last.target, PARAMS)
          IN  /\ \E i \in 1..Len(getApiParams(last.target)) : getApiParams(last.target)[i] = created
              /\ created.in = "path"
              /\ created.name = last.input.name
              /\ last.input.required # undefined => created.required = Get(last.input.required)
              /\ last.input.required = undefined => created.required = TRUE
              /\ \A f \in { "description", "type", "example", "enum", "deprecated" } :
                    created[f] = last.input[f]

\* ApiParam has just been applied with required: false, after an application
\* with the name alone.
C17_Witness ==
    /\ last.op = "ApiParam"
    /\ last.input.required = Some(FALSE)
    /\ Len(applied[last.target][PARAMS]) = 2
    /\ applied[last.target][PARAMS][2].required = FALSE
    /\ applied[last.target][PARAMS][1].required = TRUE
    /\ applied[last.target][PARAMS][1].type = undefined
    /\ applied[last.target][PARAMS][1].enum = undefined

OptionalSections == { "servers", "security", "tags", "externalDocs" }

\* C18: every document has openapi '3.0.0', the configuration's info, empty
\* components, and each of servers, security, tags and externalDocs exactly
\* when the configuration has it, with the configuration's value.
C18_TopLevel ==
    Generated =>
        LET config == last.input.config
        IN  /\ Doc.openapi = "3.0.0"
            /\ Doc.info = config.info
            /\ Doc.components = EmptyObject
            /\ DOMAIN Doc = { "openapi", "info", "paths", "components" }
                               \cup (OptionalSections \cap DOMAIN config)
            /\ \A k \in OptionalSections \cap DOMAIN config : Doc[k] = config[k]

\* A document with paths, generated under a configuration that has servers
\* and externalDocs and neither security nor tags.
C18_Witness ==
    /\ Generated
    /\ DOMAIN Doc.paths # {}
    /\ Doc.servers = <<>>
    /\ "externalDocs" \in DOMAIN Doc
    /\ "security" \notin DOMAIN Doc
    /\ "tags" \notin DOMAIN Doc

OperationFields == { "summary", "description", "tags", "operationId", "deprecated" }

\* C19: a generated operation has the summary, description, tags, operationId
\* and deprecated of its handler's OperationMetadata, and one parameter for each
\* of the handler's ParamMetadata entries, in stored order, with the entry's
\* name, in and required; it has no parameters key when there is no entry.
C19_OperationFields ==
    Generated =>
        \A op \in Operations :
            LET h == SourceOf(op[1], op[2])
                metadata == Get(getOperation(store, h))
                params == getParams(store, h)
                operation == Doc.paths[op[1]][op[2]]
            IN  /\ \A f \in OperationFields : operation[f] = metadata[f]
                /\ params = <<>> => "parameters" \notin DOMAIN operation
                /\ params # <<>> =>
                      /\ "parameters" \in DOMAIN operation
                      /\ Len(operation.parameters) = Len(params)
                      /\ \A i \in 1..Len(params) :
                            /\ operation.parameters[i].name = params[i].name
                            /\ operation.parameters[i].in = params[i].in
                            /\ operation.parameters[i].required = params[i].required

\* An operation with every optional field, whose handler has two parameters of
\* different names, the second not required, and an operation without
\* parameters.
C19_Witness ==
    /\ Generated
    /\ \E op \in Operations :
          LET params == getParams(store, SourceOf(op[1], op[2]))
              operation == Doc.paths[op[1]][op[2]]
          IN  /\ Len(params) = 2
              /\ params[1].name # params[2].name
              /\ ~params[2].required
              /\ operation.parameters[2].name = "groupId"
              /\ operation.deprecated = Some(TRUE)
    /\ \E op \in Operations : "parameters" \notin DOMAIN Doc.paths[op[1]][op[2]]

\* C30: the response generated from an entry with custom content has that
\* content object as its content, whatever the entry's type reference; an
\* example is never a key of the response itself: it is the example of the
\* content's 'application/json' media type when the content has one, and is
\* nowhere in the document when the content has none or there is no content.
C30_CustomContentWins ==
    Generated =>
        \A op \in Operations :
            LET entries == getResponses(store, SourceOf(op[1], op[2]))
                responses == Doc.paths[op[1]][op[2]].responses
            IN  \A i \in 1..Len(entries) :
                  (\A j \in (i + 1)..Len(entries) : entries[j].status # entries[i].status) =>
                    LET e == entries[i]
                        response == responses[Decimal(e.status)]
                    IN  /\ "example" \notin DOMAIN response
                        /\ e.content # undefined =>
                              /\ response.content = [ref |-> Get(e.content)]
                              /\ JSON \notin DOMAIN heap[Get(e.content)] =>
                                    /\ heap[Get(e.content)] = InitialHeap[Get(e.content)]
                                    /\ \A media \in DOMAIN heap[Get(e.content)] :
                                          "example" \notin DOMAIN heap[Get(e.content)][media]
                              /\ ( /\ e.example # undefined
                                   /\ JSON \in DOMAIN heap[Get(e.content)]
                                   /\ \A j \in (i + 1)..Len(entries) :
                                         entries[j].content # e.content ) =>
                                    heap[Get(e.content)][JSON].example = Get(e.example)
                        /\ (e.content = undefined /\ "content" \in DOMAIN response) =>
                              /\ DOMAIN response.content.own = { JSON }
                              /\ IF e.example # undefined
                                 THEN response.content.own[JSON].example = Get(e.example)
                                 ELSE "example" \notin DOMAIN response.content.own[JSON]
                        /\ (e.content = undefined /\ ~TruthyType(e.type)) =>
                              DOMAIN response = { "description" }

\* One operation with a 404 response from an entry with a class type, an
\* example and custom content without 'application/json' (the type's schema and
\* the example are both gone), and a 200 response from an entry with a type, an
\* example and custom content with 'application/json' (which holds the example).
C30_Witness ==
    /\ Generated
    /\ \E op \in Operations :
          LET entries == getResponses(store, SourceOf(op[1], op[2]))
              responses == Doc.paths[op[1]][op[2]].responses
          IN  /\ Len(entries) = 2
              /\ \E i \in 1..2 :
                    /\ entries[i].status = 404 /\ entries[i].content = Some("c2")
                    /\ entries[i].type = Some(ClassType(<<"U","s","e","r">>))
                    /\ entries[i].example # undefined
              /\ \E i \in 1..2 :
                    /\ entries[i].status = 200 /\ entries[i].content = Some("c1")
                    /\ entries[i].type # undefined
              /\ responses[Decimal(404)].content = [ref |-> "c2"]
              /\ responses[Decimal(200)].content = [ref |-> "c1"]
              /\ heap["c1"][JSON].example = "ex5"
              /\ DOMAIN heap["c1"][JSON] = { "schema", "example" }

-----------------------------------------------------------------------------
(* Properties of the Schema Mapper (SpecTypes) *)

\* The schema the claim gives for a type reference.
SchemaOf(typeRef) ==
    CASE typeRef.typeof = "string"
           /\ typeRef.value \in { "string", "number", "integer", "boolean", "object" }
             -> [type |-> typeRef.value]
      [] typeRef.typeof = "string" /\ typeRef.value = "array"
             -> [type |-> "array", items |-> [type |-> "string"]]
      [] typeRef.typeof = "function"
             -> [ type |-> "object",
                  description |-> <<"S","c","h","e","m","a"," ","f","o","r"," ">> \o typeRef.name ]
      [] OTHER -> [type |-> "string"]

Without(object, key) == [k \in (DOMAIN object) \ {key} |-> object[k]]

\* C21: the schema generated for a type reference is {type: s} for the strings
\* string, number, integer, boolean and object, {type: 'array', items: {type:
\* 'string'}} for 'array', {type: 'string'} for every other string, and {type:
\* 'object', description: 'Schema for <name>'}, without properties, for a class.
C21_SchemaOfType ==
    Generated =>
        \A op \in Operations :
            LET h == SourceOf(op[1], op[2])
                params == getParams(store, h)
                entries == getResponses(store, h)
                operation == Doc.paths[op[1]][op[2]]
            IN  /\ \A i \in 1..Len(params) :
                      params[i].type # undefined =>
                          Without(operation.parameters[i].schema, "enum")
                              = SchemaOf(Get(params[i].type))
                /\ \A i \in 1..Len(entries) :
                      entries[i].type # undefined =>
                          operation.responses[Decimal(entries[i].status)].content.own[JSON].schema
                              = SchemaOf(Get(entries[i].type))

\* A document whose parameter is of a string type that is not known and whose
\* response is of a class type.
C21_Witness ==
    /\ Generated
    /\ Operations # {}
    /\ getParams(store, "h1") # <<>>
    /\ getParams(store, "h1")[1].type = Some(StringType("date-time"))
    /\ getResponses(store, "h1") # <<>>
    /\ getResponses(store, "h1")[1].type = Some(ClassType(<<"U","s","e","r">>))

\* C22: the schema of a parameter with enum values and a type reference is
\* the schema of the type with one more key, enum, that holds the values in
\* their order: the type and items of the schema of the type are retained.
C22_EnumAddedToSchema ==
    Generated =>
        \A op \in Operations :
            LET params == getParams(store, SourceOf(op[1], op[2]))
                operation == Doc.paths[op[1]][op[2]]
            IN  \A i \in 1..Len(params) :
                    (params[i].enum # undefined /\ params[i].type # undefined) =>
                        LET base == generateSchemaFromType(Get(params[i].type))
                            schema == operation.parameters[i].schema
                        IN  /\ DOMAIN schema = (DOMAIN base) \cup {"enum"}
                            /\ schema.enum = Get(params[i].enum)
                            /\ \A k \in DOMAIN base : schema[k] = base[k]
                            /\ schema.type = base.type

\* A document whose parameter has enum values and the type 'array': its schema
\* has type, items and enum.
C22_Witness ==
    /\ Generated
    /\ Operations # {}
    /\ getParams(store, "h1") # <<>>
    /\ getParams(store, "h1")[1].type = Some(StringType("array"))
    /\ getParams(store, "h1")[1].enum = Some(<<"b", "a">>)
    /\ \E op \in Operations :
          DOMAIN Doc.paths[op[1]][op[2]].parameters[1].schema = { "type", "items", "enum" }

-----------------------------------------------------------------------------
(* Properties of responses with a repeated status (SpecDuplicates) *)

\* The status codes among a list of entries.
Statuses(entries) == { entries[i].status : i \in 1..Len(entries) }

\* The last entry of a list with the status.
LastOfStatus(entries, status) ==
    entries[CHOOSE i \in 1..Len(entries) :
              /\ entries[i].status = status
              /\ \A j \in (i + 1)..Len(entries) : entries[j].status # status]

\* The first entry of a list with the status.
FirstOfStatus(entries, status) ==
    entries[CHOOSE i \in 1..Len(entries) :
              /\ entries[i].status = status
              /\ \A j \in 1..(i - 1) : entries[j].status # status]

\* C26, as stated: the responses map has one key for each distinct status of
\* the handler's entries; the response under a status is built from the entry
\* of that status that was applied most recently, which is the last one in
\* stored order, and getApiResponse returns the first one in stored order.
C26_MostRecentlyApplied ==
    Generated =>
        \A op \in Operations :
            LET h == SourceOf(op[1], op[2])
                entries == getResponses(store, h)
                responses == Doc.paths[op[1]][op[2]].responses
            IN  entries # <<>> =>
                  /\ DOMAIN responses = { Decimal(s) : s \in Statuses(entries) }
                  /\ Cardinality(DOMAIN responses) = Cardinality(Statuses(entries))
                  /\ \A s \in Statuses(entries) :
                        /\ LastOfStatus(applied[h][RESPONSES], s) = LastOfStatus(entries, s)
                        /\ Describes(responses[Decimal(s)], LastOfStatus(applied[h][RESPONSES], s))
                        /\ getApiResponse(h, s) = Some(FirstOfStatus(entries, s))

\* C26, amended: the response under a status is built from the entry of that
\* status that is last in stored order, which is the most recently applied one
\* when the counter was not reset between the handler's applications;
\* getApiResponse returns the first in stored order, and the map has one key
\* for each distinct status.
C26_LastInStoredOrder ==
    Generated =>
        \A op \in Operations :
            LET h == SourceOf(op[1], op[2])
                entries == getResponses(store, h)
                responses == Doc.paths[op[1]][op[2]].responses
            IN  entries # <<>> =>
                  /\ DOMAIN responses = { Decimal(s) : s \in Statuses(entries) }
                  /\ Cardinality(DOMAIN responses) = Cardinality(Statuses(entries))
                  /\ \A s \in Statuses(entries) :
                        /\ Describes(responses[Decimal(s)], LastOfStatus(entries, s))
                        /\ getApiResponse(h, s) = Some(FirstOfStatus(entries, s))
                        /\ NoResetBetween(h, RESPONSES) =>
                              LastOfStatus(applied[h][RESPONSES], s) = LastOfStatus(entries, s)

\* Two entries of status 200 with different descriptions, the one applied last
\* stored first because the counter was reset in between: the response has the
\* description of the one stored last and getApiResponse returns the other.
C26_Witness ==
    /\ Generated
    /\ \E op \in Operations :
          LET h == SourceOf(op[1], op[2])
              entries == getResponses(store, h)
              responses == Doc.paths[op[1]][op[2]].responses
          IN  /\ Len(entries) = 2
              /\ entries[1].status = 200 /\ entries[2].status = 200
              /\ entries[1].description # entries[2].description
              /\ applied[h][RESPONSES] = << entries[2], entries[1] >>
              /\ DOMAIN responses = { Decimal(200) }
              /\ responses[Decimal(200)].description = Get(entries[2].description)
              /\ getApiResponse(h, 200) = Some(entries[1])

-----------------------------------------------------------------------------
(* Properties of the kinds of metadata and of the handlers' isolation (SpecKinds) *)

\* The kinds generateSpec makes no use of.
UnusedKinds ==
    { METADATA_KEYS.API_QUERIES, METADATA_KEYS.API_BODY,
      METADATA_KEYS.API_SECURITY, METADATA_KEYS.API_TAGS }

\* The store without the query, body, security and tag metadata.
Stripped(st) ==
    [h \in DOMAIN st |-> [k \in (DOMAIN st[h]) \ UnusedKinds |-> st[h][k]]]

\* C27: the document is the one generated from the same configuration and
\* list over the store without its query, body, security and tag metadata; no
\* operation has a request body or a security member, and no parameter is a
\* query parameter.
C27_UnusedKinds ==
    Generated =>
        /\ Doc = generateSpecOf(last.input.config, Stripped(store), heap,
                                last.input.handlers).spec
        /\ \A op \in Operations :
              LET operation == Doc.paths[op[1]][op[2]]
              IN  /\ "requestBody" \notin DOMAIN operation
                  /\ "security" \notin DOMAIN operation
                  /\ "parameters" \in DOMAIN operation =>
                        \A i \in 1..Len(operation.parameters) :
                            operation.parameters[i]["in"] = "path"

\* A document generated while a handler with an operation, a parameter and a
\* response also has query, body, security and tag metadata.
C27_Witness ==
    /\ Generated
    /\ Len(getExistingMetadataKeys(store, "h1")) = 7
    /\ \E op \in Operations :
          /\ SourceOf(op[1], op[2]) = "h1"
          /\ Len(Doc.paths[op[1]][op[2]].parameters) = 1

\* The operations on one handler's metadata.
HandlerOperations == { "ApiOperation", "ApiResponse", "ApiParam", "add", "setBody", "clearMetadata" }

\* C28: a decorator application or a set, add or clear of MetadataManager on
\* one handler leaves every read of every other handler, and the operation
\* generateSpec builds for it, as they were.
C28_HandlersIsolated ==
    [][ last'.op \in HandlerOperations =>
            \A g \in Handlers \ {last'.target} :
                /\ getHandlerMetadata(store', g) = getHandlerMetadata(store, g)
                /\ hasMetadata(store', g) = hasMetadata(store, g)
                /\ getExistingMetadataKeys(store', g) = getExistingMetadataKeys(store, g)
                /\ generateOperation(getHandlerMetadata(store', g), heap') =
                      generateOperation(getHandlerMetadata(store, g), heap) ]_vars

\* The body of a handler that has the other six kinds has just been set, next
\* to a handler with an operation and a response.
C28_Witness ==
    /\ last.op = "setBody"
    /\ Len(getExistingMetadataKeys(store, last.target)) = 7
    /\ \E g \in Handlers \ {last.target} :
          /\ getOperation(store, g) # undefined
          /\ Len(getResponses(store, g)) = 1
          /\ getBody(store, g) = undefined

====
